---- MODULE Spec2Model ----
(***************************************************************************)
(* A model of the mutation pipeline of the IDE sanitization tool:          *)
(*   - the state-store sanitizer   (augment_tools_core/database_manager.py)*)
(*   - the patch engine            (augment_tools_core/patch_manager.py)   *)
(*   - the process lifecycle mgr   (augment_tools_core/process_manager.py) *)
(*   - the orchestrator            (augment_tools_core/cleanup_strategies) *)
(* Each subsystem has its own specification (SpecDb, SpecPatch, SpecKill,  *)
(* SpecOrch); the variables of the other subsystems stay at their initial  *)
(* values.                                                                 *)
(***************************************************************************)
EXTENDS Integers, Sequences, FiniteSets, TLC

VARIABLES
    db,        \* state.vscdb: NoFile, or the rows  key -> value  of ItemTable
    dbBak,     \* state.vscdb.backup: NoFile or a copy of a store
    dbKeyword, \* the keyword the session's sanitization calls are made with
    dbLast,    \* what the most recent sanitization call did (NoCall at first)
    dbPrev,    \* variant and verdict of the call before it
    pfile,     \* the script bundle (extension.js): missing, or its chunks
    pbak,      \* its backup <stem>_ori<ext>: missing, or a copy
    patchLast, \* what the most recent patch-engine call did
    patchPrev, \* operation, variant and verdict of the call before it
    procs,     \* the running processes that match the IDE (their pids)
    kpc,       \* kill_ide_processes: where the call stands
    kcall,     \* its caller and its force argument
    ktargets,  \* the process list the next kill primitives are issued for
    kretry,    \* _kill_processes_force: the loop variable retry
    kenum,     \* the most recent get_ide_processes() of the call, and where
    kcmdOk,    \* whether the kill commands of the call reported success
    kstat,     \* how many standard and forced kill rounds the call made
    kret,      \* the value the call returned
    opts,      \* execute_cleanup: ide_type, the CleanupOptions, the paths
    opc,       \* execute_cleanup: where the run stands
    oprocs,    \* the local variable processes of the process steps
    ores,      \* the CleanupResult being built
    olog,      \* the steps the run has taken, in order
    oout,      \* how execute_cleanup ended: "returned" or "raised"
    oenv,      \* what the run met: how many processes at its start, whether
               \* any started or ended since, whether unlink(state.vscdb) went through
    fs,        \* which target files exist, by directory and file name
    fc,        \* clean_ide_files: the pass under way and its counts
    fd,        \* safe_delete_file: the call under way and its result
    tfile,     \* storage.json: missing, or its layout and the JSON value in it
    tbak,      \* storage.json.backup: missing, or a copy
    tlast,     \* what the most recent modify_vscode_telemetry_ids did
    wk,        \* RunAllWorker: where run() stands, is_cancelled, the locals
    wlog,      \* what the worker did and which signals it emitted, in order
    penv,      \* the machine get_ide_paths runs on: system, files, installs
    plast,     \* what the most recent get_ide_paths call was given and did
    gui        \* MainPage: current_worker, the buttons, the dialog that is
               \* open, the worker threads under way, the signals queued

dbVars == <<db, dbBak, dbKeyword, dbLast, dbPrev>>
patchVars == <<pfile, pbak, patchLast, patchPrev>>
killVars == <<kpc, kcall, ktargets, kretry, kenum, kcmdOk, kstat, kret>>
orchVars == <<opts, opc, oprocs, ores, olog, oout, oenv>>
fileVars == <<fs, fc, fd>>
telVars == <<tfile, tbak, tlast>>
workVars == <<wk, wlog>>
pathVars == <<penv, plast>>
guiVars == <<gui>>
restVars == <<telVars, workVars, pathVars, guiVars>>

vars == <<db, dbBak, dbKeyword, dbLast, dbPrev,
          pfile, pbak, patchLast, patchPrev,
          procs, kpc, kcall, ktargets, kretry, kenum, kcmdOk, kstat, kret,
          opts, opc, oprocs, ores, olog, oout, oenv, fs, fc, fd,
          tfile, tbak, tlast, wk, wlog, penv, plast, gui>>

\* A file of the store kind: missing, or holding the rows  key -> value.
NoFile == [exists |-> FALSE, rows |-> <<>>]
StoreFile(rows) == [exists |-> TRUE, rows |-> rows]
NoCall == [op |-> "none"]

(***************************************************************************)
(* Bounds of the model.                                                    *)
(***************************************************************************)
MaxRows == 2

(***************************************************************************)
(* State-store sanitizer.                                                  *)
(* Keys and keywords are character sequences, so that the LIKE operator    *)
(* of the store can be computed as SQLite computes it.                     *)
(***************************************************************************)
Keys ==
    { <<"a", "b">>, <<"A", "b">>, <<"x", "a", "b">>, <<"a", "x", "b">>,
      <<"a", "_", "b">>, <<"b">> }

Keywords ==
    { <<"a", "b">>, <<"A", "B">>, <<"a", "_", "b">>, <<"x">>, <<"z">> }

Values == {1, 2}

DbFaults == {"none", "backup", "open", "read", "delete", "commit"}

\* ASCII case folding, as SQLite's LIKE and Python's str.lower() do it.
Lower(c) ==
    CASE c = "A" -> "a"
      [] c = "B" -> "b"
      [] c = "X" -> "x"
      [] c = "Z" -> "z"
      [] OTHER   -> c

\* SQLite's LIKE: % matches any run of characters, _ matches exactly one
\* character, every other character matches itself ignoring ASCII case.
\* The queries give no ESCAPE clause.
RECURSIVE LikeMatch(_, _)
LikeMatch(p, s) ==
    IF p = <<>> THEN s = <<>>
    ELSE IF Head(p) = "%"
         THEN LikeMatch(Tail(p), s) \/ (s # <<>> /\ LikeMatch(p, Tail(s)))
         ELSE /\ s # <<>>
              /\ (Head(p) = "_" \/ Lower(Head(p)) = Lower(Head(s)))
              /\ LikeMatch(Tail(p), Tail(s))

\* like_pattern = f"%{keyword}%"
LikePattern(keyword) == <<"%">> \o keyword \o <<"%">>

\* key contains keyword as a case-insensitive substring (the reference
\* the sanitizer's contract is stated against).
ContainsCI(key, keyword) ==
    \E i \in 1..(Len(key) + 1) :
        /\ i + Len(keyword) - 1 <= Len(key)
        /\ \A j \in 1..Len(keyword) : Lower(key[i + j - 1]) = Lower(keyword[j])

\* SELECT key FROM ItemTable WHERE key LIKE ?
SelectMatches(store, keyword) ==
    {k \in DOMAIN store.rows : LikeMatch(LikePattern(keyword), k)}

\* A plausible slip: the DELETE compares case-sensitively.
RECURSIVE LikeMatchCS(_, _)
LikeMatchCS(p, s) ==
    IF p = <<>> THEN s = <<>>
    ELSE IF Head(p) = "%"
         THEN LikeMatchCS(Tail(p), s) \/ (s # <<>> /\ LikeMatchCS(p, Tail(s)))
         ELSE /\ s # <<>>
              /\ (Head(p) = "_" \/ Head(p) = Head(s))
              /\ LikeMatchCS(Tail(p), Tail(s))

DeleteMatchesCaseSensitive(store, keyword) ==
    {k \in DOMAIN store.rows : LikeMatchCS(LikePattern(keyword), k)}

\* DELETE FROM ItemTable WHERE key LIKE ?
DeleteMatches(store, keyword) ==
    {k \in DOMAIN store.rows : LikeMatch(LikePattern(keyword), k)}

\* The store without the rows of the given keys.
WithoutRows(store, ks) ==
    StoreFile([k \in (DOMAIN store.rows) \ ks |-> store.rows[k]])

\* A slip: a backup that is already there is kept.
create_backup_keep(file, bak, copyFails) ==
    IF file = NoFile \/ copyFails
    THEN [ok |-> FALSE, bak |-> bak]
    ELSE [ok |-> TRUE, bak |-> IF bak = NoFile THEN file ELSE bak]

\* create_backup: copies the file to <name>.backup, replacing an earlier
\* backup; None (here: ok = FALSE) when the file is missing or the copy fails.
create_backup(file, bak, copyFails) ==
    IF file = NoFile \/ copyFails
    THEN [ok |-> FALSE, bak |-> bak]
    ELSE [ok |-> TRUE, bak |-> file]

\* What a sanitization call reports and leaves behind.
\*   db, bak    the two files after the call
\*   ok         the call's verdict (True, or result["success"])
\*   entries    result["entries_removed"] (0 for the plain variant)
\*   opened     the call got as far as sqlite3.connect
\*   backupOk   create_backup returned a path in this call
\*   restored   the call copied the backup over the store
DbOutcome(d, b, ok, entries, opened, backupOk, restored) ==
    [db |-> d, bak |-> b, ok |-> ok, entries |-> entries, opened |-> opened,
     backupOk |-> backupOk, restored |-> restored]

\* deleted_rows == num_entries_to_delete -> success; a mismatch is a
\* "partial success" when at least one row went, a failure otherwise.
RowcountVerdict(expected, deleted) ==
    IF deleted = expected THEN TRUE ELSE deleted > 0

\* clean_vscode_database(db_path, keyword); fault names the step that
\* raises sqlite3.Error if the call reaches it ("backup": the copy fails).
clean_vscode_database(store, bak, keyword, fault) ==
    IF store = NoFile
    THEN DbOutcome(store, bak, FALSE, 0, FALSE, FALSE, FALSE)
    ELSE
    LET bk == create_backup(store, bak, fault = "backup") IN
    IF ~bk.ok
    THEN DbOutcome(store, bk.bak, FALSE, 0, FALSE, FALSE, FALSE)
    ELSE IF fault \in {"open", "read"}
    \* except sqlite3.Error: shutil.copy2(backup_path, db_path)
    THEN DbOutcome(bk.bak, bk.bak, FALSE, 0, TRUE, TRUE, TRUE)
    ELSE
    LET found == SelectMatches(store, keyword) IN
    IF found = {}
    THEN DbOutcome(store, bk.bak, TRUE, 0, TRUE, TRUE, FALSE)
    ELSE IF fault \in {"delete", "commit"}
    \* nothing was committed; the handler restores from the backup
    THEN DbOutcome(bk.bak, bk.bak, FALSE, 0, TRUE, TRUE, TRUE)
    ELSE
    LET gone == DeleteMatches(store, keyword) IN
    DbOutcome(WithoutRows(store, gone), bk.bak,
              RowcountVerdict(Cardinality(found), Cardinality(gone)),
              0, TRUE, TRUE, FALSE)

\* clean_vscode_database_enhanced(db_path, keyword): the backup's result is
\* only recorded; an exception leaves the `with` block, which rolls the
\* transaction back, and no restore is attempted.
clean_vscode_database_enhanced(store, bak, keyword, fault) ==
    IF store = NoFile
    THEN DbOutcome(store, bak, FALSE, 0, FALSE, FALSE, FALSE)
    ELSE
    LET bk == create_backup(store, bak, fault = "backup") IN
    IF fault \in {"open", "read"}
    THEN DbOutcome(store, bk.bak, FALSE, 0, TRUE, bk.ok, FALSE)
    ELSE
    LET found == SelectMatches(store, keyword) IN
    IF found = {}
    THEN DbOutcome(store, bk.bak, TRUE, 0, TRUE, bk.ok, FALSE)
    ELSE IF fault \in {"delete", "commit"}
    THEN DbOutcome(store, bk.bak, FALSE, 0, TRUE, bk.ok, FALSE)
    ELSE
    DbOutcome(WithoutRows(store, DeleteMatches(store, keyword)), bk.bak,
              TRUE, Cardinality(found), TRUE, bk.ok, FALSE)

\* The record kept of a call: its inputs, the store before it, its outcome.
DbCall(variant, fault, out) ==
    [op |-> variant, fault |-> fault, pre |-> db, ok |-> out.ok,
     entries |-> out.entries, opened |-> out.opened,
     backupOk |-> out.backupOk, restored |-> out.restored]

ApplyDb(variant, fault, out) ==
    /\ db' = out.db
    /\ dbBak' = out.bak
    /\ dbLast' = DbCall(variant, fault, out)
    /\ dbPrev' = [op |-> dbLast.op,
                  ok |-> dbLast.op # "none" /\ dbLast.ok,
                  changed |-> dbLast.op # "none" /\ db # dbLast.pre]
    /\ UNCHANGED dbKeyword
    /\ UNCHANGED <<patchVars, procs, killVars, orchVars, fileVars, restVars>>

CleanPlain ==
    \E fault \in DbFaults :
        ApplyDb("plain", fault,
                clean_vscode_database(db, dbBak, dbKeyword, fault))

CleanEnhanced ==
    \E fault \in DbFaults :
        ApplyDb("enhanced", fault,
                clean_vscode_database_enhanced(db, dbBak, dbKeyword, fault))

Stores ==
    {NoFile} \cup
    { StoreFile(f) :
        f \in UNION { [ks -> Values] :
                        ks \in {s \in SUBSET Keys : Cardinality(s) <= MaxRows} } }

\* The other subsystems at rest.
PatchIdle ==
    /\ pfile = [exists |-> FALSE, content |-> <<>>]
    /\ pbak = [exists |-> FALSE, content |-> <<>>]
    /\ patchLast = NoCall
    /\ patchPrev = [op |-> "none", ok |-> FALSE, mode |-> "none"]

NoStat == [stdKills |-> 0, forceKills |-> 0]

KillIdle ==
    /\ kpc = "idle"
    /\ kcall = [caller |-> "none", force |-> FALSE]
    /\ ktargets = {}
    /\ kretry = 0
    /\ kenum = [at |-> "none", found |-> {}]
    /\ kcmdOk = TRUE
    /\ kstat = NoStat
    /\ kret = FALSE

\* CleanupResult.__init__
CleanupResult ==
    [database_cleaned |-> FALSE, database_entries_removed |-> 0,
     files_deleted |-> 0, global_storage_files |-> 0,
     workspace_storage_files |-> 0, processes_killed |-> 0,
     errors |-> <<>>, warnings |-> <<>>]

\* Nothing met: no run is under way.
\* no command line: the run was started by a direct call
NoCli == [used |-> FALSE, kill_processes |-> FALSE, skip_process_check |-> FALSE]

NoEnv == [n0 |-> 0, acted |-> FALSE, unlinkOk |-> FALSE, cli |-> NoCli]

OrchIdle ==
    /\ opts = [ide |-> "vscode", mode |-> "hybrid", force_delete |-> FALSE,
               kill_processes |-> FALSE, skip_process_check |-> FALSE,
               paths |-> "found"]
    /\ opc = "idle"
    /\ oprocs = {}
    /\ ores = CleanupResult
    /\ olog = <<>>
    /\ oout = "none"
    /\ oenv = NoEnv

\* The directories of the storage tree: 0 is globalStorage, the others are
\* the subdirectories of workspaceStorage.
MaxWorkspaces == 2
Workspaces == 1..MaxWorkspaces
StorageDirs == {0} \cup Workspaces

\* FileCleaner.TARGET_FILES
TARGET_FILES == <<"state.vscdb", "state.vscdb.backup">>

TargetPaths == StorageDirs \X DOMAIN TARGET_FILES

NoPass ==
    [pc |-> "idle", force |-> FALSE, windows |-> FALSE, paths |-> "found",
     dir |-> 0, idx |-> 1, globalStorage |-> 0, workspaceStorage |-> 0,
     attempted |-> {}, out |-> "none", had |-> {}]

NoDelete ==
    [stage |-> "none", path |-> <<0, 1>>, method |-> 0, ret |-> FALSE,
     existed |-> FALSE, noEffect |-> FALSE, errno |-> "none"]

FileIdle ==
    /\ fs = [p \in TargetPaths |-> FALSE]
    /\ fc = NoPass
    /\ fd = NoDelete

\* A key that is not in a JSON object.
Absent == "absent"

\* The JSON value of a settings file that holds none.
NoData ==
    [kind |-> "none", machineId |-> Absent, other |-> Absent,
     telemetry |-> [kind |-> "absent", machineId |-> Absent,
                    devDeviceId |-> Absent, other |-> Absent]]

\* A file of the settings kind: missing, or its layout and its JSON value.
NoSettings == [exists |-> FALSE, layout |-> "none", data |-> NoData]

NoTelCall ==
    [op |-> "none", ok |-> FALSE, wrote |-> FALSE, compared |-> FALSE,
     machine |-> "none", device |-> "none", before |-> NoSettings,
     prev |-> [ok |-> FALSE, machine |-> "none", device |-> "none"]]

TelIdle ==
    /\ tfile = NoSettings
    /\ tbak = NoSettings
    /\ tlast = NoTelCall

\* No worker thread exists.
NoWorker ==
    [pc |-> "none", is_cancelled |-> FALSE, queue |-> {},
     db_success |-> FALSE, id_success |-> FALSE]

WorkIdle ==
    /\ wk = NoWorker
    /\ wlog = <<>>

\* A machine with nothing on it, and no call made.
NoMachine ==
    [system |-> "Linux", state_db |-> FALSE, storage_json |-> FALSE,
     search |-> "nothing", raises |-> FALSE, cands |-> <<>>]

NoResolve ==
    [op |-> "none", ide |-> "vscode", auto_search |-> TRUE, ret |-> "none",
     searched |-> FALSE, raised |-> FALSE, chosen |-> 0]

PathIdle ==
    /\ penv = NoMachine
    /\ plast = NoResolve

\* MainPage.__init__: no worker, the buttons enabled, no dialog
NoPage ==
    [current_worker |-> "none", enabled |-> TRUE, dialog |-> "none",
     active |-> 0, signals |-> <<>>, ide |-> "vscode", running |-> FALSE,
     status |-> "none"]

GuiIdle == gui = NoPage

\* The subsystems declared after the file cleaner are idle.
RestIdle == TelIdle /\ WorkIdle /\ PathIdle /\ GuiIdle

InitDb ==
    /\ RestIdle
    /\ FileIdle
    /\ PatchIdle
    /\ procs = {}
    /\ KillIdle
    /\ OrchIdle
    /\ db \in Stores
    /\ dbBak = NoFile
    /\ dbKeyword \in Keywords
    /\ dbLast = NoCall
    /\ dbPrev = [op |-> "none", ok |-> FALSE, changed |-> FALSE]

NextDb == CleanPlain \/ CleanEnhanced

SpecDb == InitDb /\ [][NextDb]_vars

(***************************************************************************)
(* Claims about the state-store sanitizer, checked under SpecDb.           *)
(***************************************************************************)
DbCalled == dbLast.op # "none"

\* The rows of store whose key does not contain the keyword
\* (case-insensitive substring).
RowsWithoutKeyword(store, keyword) ==
    StoreFile([k \in {x \in DOMAIN store.rows : ~ContainsCI(x, keyword)}
                  |-> store.rows[k]])

\* C1: no destructive mutation proceeds without a successful backup: a
\* sanitization call (plain or enhanced) changes the store only if that same
\* call created a backup of it; when the backup fails the store is untouched.
C1_NoMutationWithoutBackup ==
    DbCalled => (db # dbLast.pre => dbLast.backupOk)

\* C2: whenever a sanitization returns failure after it has opened the
\* store, the store's content equals its content at the start of the call
\* and it was restored from the backup.
C2_FailureRestoresFromBackup ==
    (DbCalled /\ dbLast.opened /\ ~dbLast.ok)
        => (db = dbLast.pre /\ dbLast.restored)

\* C4: sanitizing for the same keyword twice in a row (the first run
\* succeeded, nothing else wrote, the second run meets no I/O fault): the
\* second run returns success and removes zero entries.
C4_SecondRunRemovesNothing ==
    (DbCalled /\ dbPrev.op # "none" /\ dbPrev.ok /\ dbLast.fault = "none")
        => (dbLast.ok /\ db = dbLast.pre /\ dbLast.entries = 0)

\* C4's case: a first run that removed rows, then a fault-free second run.
C4_Witness ==
    /\ DbCalled
    /\ dbPrev.ok /\ dbPrev.changed
    /\ dbLast.fault = "none"
    /\ dbLast.pre.exists /\ DOMAIN dbLast.pre.rows # {}

\* C5: a successful sanitization removes exactly the rows whose key contains
\* the keyword as a case-insensitive substring; every other row stays, with
\* its value.
C5_RemovesExactlyKeywordRows ==
    (DbCalled /\ dbLast.ok) => db = RowsWithoutKeyword(dbLast.pre, dbKeyword)

\* C40: after any sequence of sanitization runs, a run whose backup step
\* went through leaves in the .backup file the store's content as at the
\* start of that run, whatever backup was there before and also when the
\* run removed nothing or failed later; a run that did not make its backup
\* leaves the .backup file as it was.
C40_BackupIsOfLatestRun ==
    /\ []((DbCalled /\ dbLast.backupOk) => dbBak = dbLast.pre)
    /\ [][(dbLast' # dbLast /\ ~dbLast'.backupOk) => (dbBak' = dbBak)]_vars

\* A run removed rows; the next run removed nothing and still replaced the
\* first run's backup by the store as it found it.
C40_Witness ==
    /\ DbCalled
    /\ dbPrev.ok /\ dbPrev.changed
    /\ dbLast.ok /\ dbLast.backupOk
    /\ db.exists /\ db = dbLast.pre
    /\ dbBak = db

(***************************************************************************)
(* Patch engine.                                                           *)
(* A script bundle is a sequence of chunks of text:                        *)
(*   "code"    text with neither the anchor nor a signature marker         *)
(*   "anchor"  a match of  async\s+callApi\s*\([^)]*\)\s*\{                *)
(*   "mark"    foreign text that holds the marker randSessionId            *)
(*   "P_<m>"   the snippet self.patches[m]                                 *)
(*   "RND"     the text of _generate_session_randomizer()                  *)
(***************************************************************************)
NoScript == [exists |-> FALSE, content |-> <<>>]
Script(content) == [exists |-> TRUE, content |-> content]

PatchMode == {"block", "random", "empty", "stealth", "debug"}

\* self.patches[mode]
patches(mode) ==
    CASE mode = "block"   -> "P_block"
      [] mode = "random"  -> "P_random"
      [] mode = "empty"   -> "P_empty"
      [] mode = "stealth" -> "P_stealth"
      [] mode = "debug"   -> "P_debug"

_generate_session_randomizer == "RND"

\* The signature substrings a chunk of text holds: every snippet tests
\* startsWith("report-") and startsWith("record-"); the randomizer declares
\* randSessionId and sets this._userAgent = "".
ChunkMarkers(chunk) ==
    CASE chunk \in {"P_block", "P_random", "P_empty", "P_stealth", "P_debug"}
             -> {"startsWith(report-)", "startsWith(record-)"}
      [] chunk = "RND"  -> {"randSessionId", "this._userAgent"}
      [] chunk = "mark" -> {"randSessionId"}
      [] OTHER -> {}

\* A slip: markers spelled differently from what the snippets hold.
patch_signatures_misspelt ==
    {"startsWith(report_)", "startsWith(record_)", "randSession", "_userAgent ="}

\* self.patch_signatures
patch_signatures ==
    {"startsWith(report-)", "startsWith(record-)", "randSessionId",
     "this._userAgent"}

\* any(sig in content for sig in self.patch_signatures)
_is_already_patched(content) ==
    \E sig \in patch_signatures :
        \E i \in 1..Len(content) : sig \in ChunkMarkers(content[i])

\* re.search(pattern, content): the end of the first match, 0 for no match.
_find_callapi_function(content) ==
    IF \E i \in 1..Len(content) : content[i] = "anchor"
    THEN CHOOSE i \in 1..Len(content) :
            /\ content[i] = "anchor"
            /\ \A j \in 1..(i - 1) : content[j] # "anchor"
    ELSE 0

\* A slip: the backup is copied afresh on every call.
_create_backup_overwrite(file, bak, copyFails) ==
    IF copyFails THEN [ok |-> FALSE, bak |-> bak]
    ELSE [ok |-> TRUE, bak |-> file]

\* _create_backup: an existing backup is kept and reported as success.
_create_backup(file, bak, copyFails) ==
    IF bak.exists THEN [ok |-> TRUE, bak |-> bak]
    ELSE IF copyFails THEN [ok |-> FALSE, bak |-> bak]
    ELSE [ok |-> TRUE, bak |-> file]

\* content[:func_start] + patch_code + content[func_start:]
Spliced(content, at, mode) ==
    SubSeq(content, 1, at)
        \o <<patches(mode), _generate_session_randomizer>>
        \o SubSeq(content, at + 1, Len(content))

PatchOutcome(f, b, ok, msg) == [file |-> f, bak |-> b, ok |-> ok, msg |-> msg]

\* A slip: the backup is taken before the anchor is looked for.
apply_patch_backup_first(file, bak, mode, fault) ==
    IF ~file.exists THEN PatchOutcome(file, bak, FALSE, "file_missing")
    ELSE IF fault = "read" THEN PatchOutcome(file, bak, FALSE, "read_failed")
    ELSE IF _is_already_patched(file.content)
    THEN PatchOutcome(file, bak, FALSE, "already_patched")
    ELSE
    LET bk == _create_backup(file, bak, fault = "backup") IN
    IF ~bk.ok THEN PatchOutcome(file, bk.bak, FALSE, "backup_failed")
    ELSE
    LET at == _find_callapi_function(file.content) IN
    IF at = 0 THEN PatchOutcome(file, bk.bak, FALSE, "anchor_not_found")
    ELSE IF fault = "write"
    THEN PatchOutcome(bk.bak, bk.bak, FALSE, "write_failed")
    ELSE PatchOutcome(Script(Spliced(file.content, at, mode)), bk.bak,
                      TRUE, "patched")

\* apply_patch(file_path, patch_mode); fault names the step that raises if
\* the call reaches it: reading the file, copying the backup, writing.
apply_patch(file, bak, mode, fault) ==
    IF ~file.exists THEN PatchOutcome(file, bak, FALSE, "file_missing")
    ELSE IF fault = "read" THEN PatchOutcome(file, bak, FALSE, "read_failed")
    ELSE IF _is_already_patched(file.content)
    THEN PatchOutcome(file, bak, FALSE, "already_patched")
    ELSE
    LET at == _find_callapi_function(file.content) IN
    IF at = 0 THEN PatchOutcome(file, bak, FALSE, "anchor_not_found")
    ELSE
    LET bk == _create_backup(file, bak, fault = "backup") IN
    IF ~bk.ok THEN PatchOutcome(file, bk.bak, FALSE, "backup_failed")
    ELSE IF fault = "write"
    \* except: shutil.copy2(backup_path, file_path)
    THEN PatchOutcome(bk.bak, bk.bak, FALSE, "write_failed")
    ELSE PatchOutcome(Script(Spliced(file.content, at, mode)), bk.bak,
                      TRUE, "patched")

\* A slip: with no backup beside the file the call reports success and does
\* nothing.
restore_from_backup_silent(file, bak, fault) ==
    IF ~bak.exists THEN PatchOutcome(file, bak, TRUE, "restored")
    ELSE IF fault = "copy" THEN PatchOutcome(file, bak, FALSE, "restore_failed")
    ELSE PatchOutcome(bak, bak, TRUE, "restored")

\* restore_from_backup(file_path)
restore_from_backup(file, bak, fault) ==
    IF ~bak.exists THEN PatchOutcome(file, bak, FALSE, "no_backup")
    ELSE IF fault = "copy" THEN PatchOutcome(file, bak, FALSE, "restore_failed")
    ELSE PatchOutcome(bak, bak, TRUE, "restored")

\* A slip: the state is read off the file's name, not its content.
get_patch_status_by_name(file, readFails) ==
    IF ~file.exists THEN "file_missing"
    ELSE IF readFails THEN "unknown"
    ELSE "patched"

\* get_patch_status(file_path)
get_patch_status(file, readFails) ==
    IF ~file.exists THEN "file_missing"
    ELSE IF readFails THEN "unknown"
    ELSE IF _is_already_patched(file.content) THEN "patched"
    ELSE "unpatched"

\* The versions of the bundle an installation or an update can put in place.
Versions ==
    { <<"code", "anchor", "code">>,
      <<"anchor", "code">>,
      <<"code", "code">>,
      <<"code", "anchor", "anchor">>,
      <<"mark", "anchor", "code">> }

PatchFaults == {"none", "read", "backup", "write"}
RestoreFaults == {"none", "copy"}

PatchCall(op, mode, fault, out) ==
    [op |-> op, mode |-> mode, fault |-> fault, pre |-> pfile,
     preBak |-> pbak, ok |-> out.ok, msg |-> out.msg]

ApplyPatchEngine(op, mode, fault, out) ==
    /\ pfile' = out.file
    /\ pbak' = out.bak
    /\ patchLast' = PatchCall(op, mode, fault, out)
    /\ patchPrev' = IF patchLast.op = "none"
                    THEN [op |-> "none", ok |-> FALSE, mode |-> "none"]
                    ELSE [op |-> patchLast.op, ok |-> patchLast.ok,
                          mode |-> patchLast.mode]
    /\ UNCHANGED <<dbVars, procs, killVars, orchVars, fileVars, restVars>>

ApplyPatch ==
    \E mode \in PatchMode, fault \in PatchFaults :
        ApplyPatchEngine("apply", mode, fault,
                         apply_patch(pfile, pbak, mode, fault))

RestoreFromBackup ==
    \E fault \in RestoreFaults :
        ApplyPatchEngine("restore", "none", fault,
                         restore_from_backup(pfile, pbak, fault))

\* get_patch_status(file_path): the file and the backup are only read.
GetPatchStatus ==
    \E readFails \in BOOLEAN :
        ApplyPatchEngine("status", "none",
                         IF readFails THEN "read" ELSE "none",
                         PatchOutcome(pfile, pbak, TRUE,
                                      get_patch_status(pfile, readFails)))

\* The IDE installs another version of the bundle (an extension update).
ReplaceFile ==
    \E v \in Versions :
        /\ Script(v) # pfile
        /\ ApplyPatchEngine("replace", "none", "none",
                            PatchOutcome(Script(v), pbak, TRUE, "replaced"))

DbIdle ==
    /\ db = NoFile
    /\ dbBak = NoFile
    /\ dbKeyword = <<"a", "b">>
    /\ dbLast = NoCall
    /\ dbPrev = [op |-> "none", ok |-> FALSE, changed |-> FALSE]

InitPatch ==
    /\ RestIdle
    /\ FileIdle
    /\ DbIdle
    /\ procs = {}
    /\ KillIdle
    /\ OrchIdle
    /\ pfile \in {NoScript} \cup {Script(v) : v \in Versions}
    /\ pbak = NoScript
    /\ patchLast = NoCall
    /\ patchPrev = [op |-> "none", ok |-> FALSE, mode |-> "none"]

NextPatch == ApplyPatch \/ RestoreFromBackup \/ GetPatchStatus \/ ReplaceFile

SpecPatch == InitPatch /\ [][NextPatch]_vars

(***************************************************************************)
(* Claims about the patch engine, checked under SpecPatch.                 *)
(***************************************************************************)
Applied == patchLast.op = "apply"

\* The number of matches of the anchor in a bundle.
AnchorCount(content) ==
    Cardinality({i \in 1..Len(content) : content[i] = "anchor"})

\* No chunk holds any of the four signature substrings of the program.
Unmarked(content) == \A i \in 1..Len(content) : ChunkMarkers(content[i]) = {}

\* C3: on an unpatched file that holds the anchor, apply_patch succeeds (when
\* no I/O step fails); and an apply_patch that immediately follows a
\* successful apply_patch with the same variant fails with the
\* already-patched message and leaves the file unchanged.
C3_SecondApplyRefused ==
    /\ (Applied /\ patchLast.fault = "none" /\ patchLast.pre.exists
            /\ Unmarked(patchLast.pre.content)
            /\ AnchorCount(patchLast.pre.content) > 0)
        => (patchLast.ok /\ patchLast.msg = "patched")
    /\ (Applied /\ patchLast.fault # "read"
            /\ patchPrev.op = "apply" /\ patchPrev.ok
            /\ patchPrev.mode = patchLast.mode)
        => (~patchLast.ok /\ patchLast.msg = "already_patched"
            /\ pfile = patchLast.pre)

\* C3's case: an apply that follows a successful apply of the same variant.
C3_Witness ==
    /\ Applied /\ patchLast.fault # "read"
    /\ patchPrev.op = "apply" /\ patchPrev.ok
    /\ patchPrev.mode = patchLast.mode
    /\ pfile = patchLast.pre

\* C9: whenever apply_patch returns failure, the file's content after the
\* call equals its content immediately before the call.
C9_FailedApplyLeavesFile ==
    (Applied /\ ~patchLast.ok) => pfile = patchLast.pre

\* C10: on a file with no anchor (and no signature marker) apply_patch fails
\* with the anchor-not-found message, creates no backup and leaves the file
\* untouched.
C10_NoAnchorNoBackup ==
    (Applied /\ patchLast.fault # "read" /\ patchLast.pre.exists
        /\ Unmarked(patchLast.pre.content)
        /\ AnchorCount(patchLast.pre.content) = 0)
    => (/\ ~patchLast.ok
        /\ patchLast.msg = "anchor_not_found"
        /\ pbak = patchLast.preBak
        /\ pfile = patchLast.pre)

\* C10's case: apply_patch has run on a file without the anchor, with no
\* backup beside it and with the copy of a backup ready to succeed.
C10_Witness ==
    /\ Applied /\ patchLast.fault = "none" /\ patchLast.pre.exists
    /\ Unmarked(patchLast.pre.content)
    /\ AnchorCount(patchLast.pre.content) = 0
    /\ ~patchLast.preBak.exists
    /\ patchLast.msg = "anchor_not_found"

\* C11: on a file that holds the anchor more than once (and no signature
\* marker) apply_patch returns failure and leaves the file unchanged.
C11_DuplicateAnchorFailsCleanly ==
    (Applied /\ patchLast.pre.exists
        /\ Unmarked(patchLast.pre.content)
        /\ AnchorCount(patchLast.pre.content) > 1)
    => (~patchLast.ok /\ pfile = patchLast.pre)

Restored == patchLast.op = "restore"

\* What a file that a successful apply_patch wrote held before that call:
\* the call ran on content without any snippet, and added two chunks.
BeforeSplice(content) ==
    SelectSeq(content,
              LAMBDA c : c \notin {patches(m) : m \in PatchMode}
                                   \cup {_generate_session_randomizer})

\* C12: a successful restore_from_backup that immediately follows a
\* successful apply_patch leaves the file with the content it had just
\* before that apply_patch.
C12_RestoreInvertsApply ==
    (Restored /\ patchLast.ok /\ patchPrev.op = "apply" /\ patchPrev.ok)
    => pfile = Script(BeforeSplice(patchLast.pre.content))

\* C13: when a backup exists, a get_patch_status that immediately follows a
\* successful restore_from_backup, and can read the file, reports unpatched.
C13_RestoredReportsUnpatched ==
    (patchLast.op = "status" /\ patchLast.fault = "none"
        /\ patchPrev.op = "restore" /\ patchPrev.ok)
    => patchLast.msg = "unpatched"

\* C13's case: the file was patched, restored, and its status then read.
C13_Witness ==
    /\ patchLast.op = "status" /\ patchLast.fault = "none"
    /\ patchPrev.op = "restore" /\ patchPrev.ok
    /\ pbak.exists
    /\ pfile = pbak
    /\ patchLast.msg = "unpatched"

\* C14: restore_from_backup with no backup beside the file returns failure
\* and leaves the file unchanged; and whenever it returns success, a backup
\* existed and the file now holds the backup's content.
C14_NoBackupFailsExplicitly ==
    Restored =>
        /\ ~patchLast.preBak.exists =>
                (~patchLast.ok /\ patchLast.msg = "no_backup"
                 /\ pfile = patchLast.pre /\ pbak = patchLast.preBak)
        /\ patchLast.ok => (patchLast.preBak.exists /\ pfile = patchLast.preBak)

\* C14's case: a restore was asked for a file that exists and has no backup.
C14_Witness ==
    /\ Restored /\ patchLast.fault = "none"
    /\ patchLast.pre.exists /\ ~patchLast.preBak.exists
    /\ ~patchLast.ok

MaxProcs == 2
Pids == 1..MaxProcs

\* max_retries of _kill_processes_force
max_retries == 3

\* get_ide_processes(ide_type): a fresh enumeration, recorded with its place.
Enumerate(at) ==
    /\ kenum' = [at |-> at, found |-> procs]
    /\ UNCHANGED kstat

\* the call returns v
KillReturns(v) ==
    /\ kpc' = "done"
    /\ kret' = v

\* A slip: the commands' exit status is taken for the verdict.
StandardVerdictByCommand(remaining, cmdOk) == cmdOk

\* _kill_processes_standard: return len(remaining) == 0
StandardVerdict(remaining, cmdOk) == remaining = {}

\* kill_ide_processes(ide_type, force), up to the first enumeration:
\*   processes = self.get_ide_processes(ide_type); if not processes: return True
KillBegin(caller, force) ==
    /\ kpc = "idle"
    /\ kcall' = [caller |-> caller, force |-> force]
    /\ kenum' = [at |-> "start", found |-> procs]
    /\ kstat' = NoStat
    /\ ktargets' = procs
    /\ kretry' = 0
    /\ kcmdOk' = TRUE
    /\ IF procs = {} THEN KillReturns(TRUE)
       ELSE /\ kpc' = "standard"
            /\ kret' = FALSE

\* What a step of the process manager leaves alone.
KillFrame == UNCHANGED <<dbVars, patchVars, orchVars, fileVars, restVars>>

\* a caller outside the orchestrator (the close-IDE command)
KillCall ==
    /\ \E force \in BOOLEAN : KillBegin("direct", force)
    /\ UNCHANGED procs
    /\ KillFrame

\* _kill_processes_standard: taskkill /F /IM per name, or kill -TERM per pid
KillStandard ==
    /\ kpc = "standard"
    /\ \E dead \in SUBSET procs, ok \in BOOLEAN :
        /\ procs' = procs \ dead
        /\ kcmdOk' = ok
    /\ kstat' = [kstat EXCEPT !.stdKills = @ + 1]
    /\ kpc' = "std_check"
    /\ UNCHANGED <<kcall, ktargets, kretry, kenum, kret>>
    /\ KillFrame

\* A slip: the forced stage is entered whatever the caller's force argument.
EscalatesAlways(force) == TRUE

\* if not force: return False; else _kill_processes_force
Escalates(force) == force

\* _kill_processes_standard raises after its kill commands (the commands
\* themselves are guarded one by one): except Exception -> return False
KillStandardRaises ==
    /\ kpc = "standard"
    /\ \E dead \in SUBSET procs : procs' = procs \ dead
    /\ kstat' = [kstat EXCEPT !.stdKills = @ + 1]
    /\ IF Escalates(kcall.force)
       THEN kpc' = "force_enum" /\ kret' = FALSE
       ELSE KillReturns(FALSE)
    /\ UNCHANGED <<kcall, ktargets, kretry, kenum, kcmdOk>>
    /\ KillFrame

\* after the sleep: remaining = get_ide_processes(); the verdict; then
\* kill_ide_processes returns it, or goes on to _kill_processes_force
KillStdCheck ==
    /\ kpc = "std_check"
    /\ Enumerate("std_check")
    /\ IF StandardVerdict(procs, kcmdOk) THEN KillReturns(TRUE)
       ELSE IF ~Escalates(kcall.force) THEN KillReturns(FALSE)
       ELSE kpc' = "force_enum" /\ kret' = FALSE
    /\ UNCHANGED <<procs, kcall, ktargets, kretry, kcmdOk>>
    /\ KillFrame

\* for retry in range(max_retries): remaining_processes = get_ide_processes()
KillForceEnum ==
    /\ kpc = "force_enum"
    /\ Enumerate("force")
    /\ ktargets' = procs
    /\ IF procs = {} THEN KillReturns(TRUE)
       ELSE kpc' = "force_kill" /\ kret' = FALSE
    /\ UNCHANGED <<procs, kcall, kretry, kcmdOk>>
    /\ KillFrame

\* A slip: the loop runs once more than max_retries.
RetryLeftOneMore(retry) == retry < max_retries + 1

\* for retry in range(max_retries): whether the loop has a round for retry
RetryLeft(retry) == retry < max_retries

\* _windows_force_kill / _unix_force_kill on remaining_processes, the sleep
KillForceKill ==
    /\ kpc = "force_kill"
    /\ \E dead \in SUBSET procs, ok \in BOOLEAN :
        /\ procs' = procs \ dead
        /\ kcmdOk' = ok
    /\ kstat' = [kstat EXCEPT !.forceKills = @ + 1]
    /\ kretry' = kretry + 1
    /\ kpc' = IF RetryLeft(kretry + 1) THEN "force_enum" ELSE "final"
    /\ UNCHANGED <<kcall, ktargets, kenum, kret>>
    /\ KillFrame

\* final_check = self.get_ide_processes(ide_type)
KillFinal ==
    /\ kpc = "final"
    /\ Enumerate("final")
    /\ KillReturns(procs = {})
    /\ UNCHANGED <<procs, kcall, ktargets, kretry, kcmdOk>>
    /\ KillFrame

\* the direct caller takes the result
KillDone ==
    /\ kpc = "done"
    /\ kcall.caller = "direct"
    /\ kpc' = "idle"
    /\ UNCHANGED <<procs, kcall, ktargets, kretry, kenum, kcmdOk, kstat, kret>>
    /\ KillFrame

\* The environment: the IDE (or the user) starts a matching process.
ProcSpawn ==
    /\ \E p \in Pids \ procs : procs' = procs \cup {p}
    /\ UNCHANGED killVars
    /\ KillFrame

\* The environment: a matching process ends by itself.
ProcExit ==
    /\ \E p \in procs : procs' = procs \ {p}
    /\ UNCHANGED killVars
    /\ KillFrame

InitKill ==
    /\ RestIdle
    /\ FileIdle
    /\ DbIdle
    /\ PatchIdle
    /\ OrchIdle
    /\ procs \in SUBSET Pids
    /\ KillIdle

NextKill ==
    \/ KillCall
    \/ KillStandard
    \/ KillStandardRaises
    \/ KillStdCheck
    \/ KillForceEnum
    \/ KillForceKill
    \/ KillFinal
    \/ KillDone
    \/ ProcSpawn
    \/ ProcExit

SpecKill == InitKill /\ [][NextKill]_vars

(***************************************************************************)
(* Claims about the process lifecycle manager, checked under SpecKill.     *)
(***************************************************************************)
\* C6: kill_ide_processes returns True only if the most recent enumeration
\* made inside the call found no process (whatever the kill commands
\* reported); with force=True it returns False only if the final
\* enumeration still found one.
C6_VerdictIsFreshEnumeration ==
    kpc = "done" =>
        /\ (kret => kenum.found = {})
        /\ ((kcall.force /\ ~kret) => (kenum.at = "final" /\ kenum.found # {}))

\* C6's case: a call returned True although a kill command reported failure,
\* after the standard round and at least one force round.
C6_Witness ==
    /\ kpc = "done" /\ kret /\ ~kcmdOk
    /\ kstat.stdKills = 1 /\ kstat.forceKills >= 1

\* A step of a call of kill_ide_processes that is under way.
KillStep ==
    \/ KillStandard
    \/ KillStdCheck
    \/ KillForceEnum
    \/ KillForceKill
    \/ KillFinal

\* The call is ordinary sequential code: the interpreter goes on to its next
\* statement, every sleep is a fixed time.sleep, and the kill and list
\* commands return.
SpecKillFair == SpecKill /\ WF_vars(KillStep)

KillRunning == kpc \in {"standard", "std_check", "force_enum", "force_kill", "final"}

\* C22: every call of kill_ide_processes returns, whatever the processes do
\* (even if they never die or keep coming back); it makes at most
\* max_retries = 3 forced kill rounds, none without force; each round acts on
\* an enumeration made just before it, and a call that used up its rounds
\* enumerates once more before it returns.
C22_KillTerminatesBounded ==
    /\ [](/\ kretry <= max_retries
          /\ kstat.forceKills <= max_retries
          /\ kstat.forceKills = kretry
          /\ kstat.stdKills <= 1
          /\ (~kcall.force => kstat.forceKills = 0)
          /\ (kpc = "force_kill" => (kenum.at = "force" /\ ktargets = kenum.found))
          /\ ((kpc = "done" /\ kstat.forceKills = max_retries)
                => kenum.at = "final"))
    /\ (KillRunning ~> kpc = "done")

\* A forced call returned False after three forced rounds: a process was
\* still there at the final enumeration.
C22_Witness ==
    /\ kpc = "done" /\ kcall.force /\ ~kret
    /\ kstat.forceKills = max_retries
    /\ kenum.at = "final" /\ kenum.found # {}

IDEType == {"vscode", "cursor", "windsurf", "jetbrains"}
CleanupMode == {"database_only", "file_only", "hybrid", "aggressive"}

\* result.add_error / result.add_warning
add_error(res, e) == [res EXCEPT !.errors = Append(@, e)]
add_warning(res, w) == [res EXCEPT !.warnings = Append(@, w)]

Logged(e) == olog' = Append(olog, e)

\* get_ide_paths as the steps see it: None, {} for JetBrains, or the paths.
PathsOf(o) ==
    IF o.paths = "none" THEN "none"
    ELSE IF o.ide = "jetbrains" THEN "empty"
    ELSE "found"

\* clean_ide_database(ide_type, keyword)
clean_ide_database(o, store, bak, keyword, fault) ==
    IF o.ide = "jetbrains"
    THEN DbOutcome(store, bak, TRUE, 0, FALSE, FALSE, FALSE)
    ELSE IF PathsOf(o) # "found"
    THEN DbOutcome(store, bak, FALSE, 0, FALSE, FALSE, FALSE)
    ELSE clean_vscode_database(store, bak, keyword, fault)

\* What os.unlink can do to an existing file: "ok"; a locking-class error
\* (errno 13 or 32) that the forced deletion overcomes ("locked_forcible")
\* or not ("locked_stuck"); any other error.
UnlinkOutcomes == {"ok", "locked_forcible", "locked_stuck", "error"}

\* safe_delete_file(file_path, force_mode) -> bool
safe_delete_file(file, force_mode, outcome) ==
    IF ~file.exists THEN FALSE
    ELSE IF outcome = "ok" THEN TRUE
    ELSE IF outcome \in {"locked_forcible", "locked_stuck"}
    THEN force_mode /\ outcome = "locked_forcible"
    ELSE FALSE

\* A slip: a deletion that went through is not counted.
CountNone(b) == 0

Count(b) == IF b THEN 1 ELSE 0

\* clean_ide_files(ide_type, force_mode): the two files after it and the
\* counts it returns.
clean_ide_files(o, store, bak, force_mode, out1, out2) ==
    IF PathsOf(o) # "found"
    THEN [db |-> store, bak |-> bak, globalStorage |-> 0, workspaceStorage |-> 0]
    ELSE
    LET d1 == safe_delete_file(store, force_mode, out1)
        d2 == safe_delete_file(bak, force_mode, out2)
    IN [db |-> IF d1 THEN NoFile ELSE store,
        bak |-> IF d2 THEN NoFile ELSE bak,
        globalStorage |-> Count(d1) + Count(d2),
        workspaceStorage |-> 0]

\* A slip: the caller's options are handed on unchanged.
AggressiveOptionsAsGiven(o) == o

\* aggressive_options = CleanupOptions(mode, keyword, force_delete=True,
\*                                     kill_processes=True, skip_process_check=False)
AggressiveOptions(o) ==
    [o EXCEPT !.force_delete = TRUE, !.kill_processes = TRUE,
              !.skip_process_check = FALSE]

\* The options the mutation steps of the run's mode are called with.
StepOptions == IF opts.mode = "aggressive" THEN AggressiveOptions(opts) ELSE opts

\* A slip: no try/except around the steps of execute_cleanup.
OnExceptionPropagate(res) == [out |-> "raised", res |-> res]

\* except Exception as e: result.add_error(error_msg); then return result
OnException(res) == [out |-> "returned", res |-> add_error(res, "cleanup_error")]

OrchFrame == UNCHANGED <<dbKeyword, dbLast, dbPrev, patchVars, fileVars, restVars>>

\* no call of the process manager is in progress and none is started
NoKill == UNCHANGED <<procs, killVars>>

\* kill_ide_processes has returned to its caller: its frame is gone
KillReturned ==
    /\ kpc' = "idle"
    /\ kcall' = [caller |-> "none", force |-> FALSE]
    /\ ktargets' = {}
    /\ kretry' = 0
    /\ kenum' = [at |-> "none", found |-> {}]
    /\ kcmdOk' = TRUE
    /\ kstat' = NoStat
    /\ kret' = FALSE

\* The next step of the run enumerates the processes.  A process that starts
\* or ends at any other moment is seen by the run exactly as one that does so
\* just before the next enumeration.
EnumeratesNext ==
    \/ opc \in {"handle_check", "handle_get", "aggr_check", "aggr_get"}
    \/ kpc \in {"std_check", "force_enum", "final"}

\* execute_cleanup up to the first step: skip_process_check or not
OrchBegin ==
    /\ opc = "start"
    /\ opc' = IF opts.skip_process_check THEN "dispatch" ELSE "handle_check"
    /\ Logged("begin")
    /\ UNCHANGED <<opts, oenv, oprocs, ores, oout, db, dbBak>>
    /\ NoKill /\ OrchFrame

\* _handle_processes: if self.process_manager.check_ide_processes(ide_type)
HandleCheck ==
    /\ opc = "handle_check"
    /\ opc' = IF procs = {} THEN "dispatch" ELSE "handle_get"
    /\ Logged(IF procs = {} THEN "handle_none" ELSE "handle_found")
    /\ UNCHANGED <<opts, oenv, oprocs, ores, oout, db, dbBak>>
    /\ NoKill /\ OrchFrame

\* processes = get_ide_processes(ide_type); then the kill, or the warning
HandleGet ==
    /\ opc = "handle_get"
    /\ IF opts.kill_processes \/ opts.mode = "aggressive"
       THEN /\ KillBegin("handle", TRUE)
            /\ oprocs' = procs
            /\ opc' = "handle_kill"
            /\ Logged("kill_force")
            /\ UNCHANGED ores
       ELSE /\ opc' = "dispatch"
            /\ oprocs' = {}
            /\ ores' = add_warning(ores, "close_ide_first")
            /\ Logged("handle_warned")
            /\ UNCHANGED killVars
    /\ UNCHANGED <<opts, oenv, oout, db, dbBak, procs>>
    /\ OrchFrame

\* success = await kill_ide_processes(ide_type, force=True) has returned
HandleKilled ==
    /\ opc = "handle_kill"
    /\ kpc = "done"
    /\ ores' = IF kret
               THEN [ores EXCEPT !.processes_killed = Cardinality(oprocs)]
               ELSE add_warning(ores, "kill_incomplete")
    /\ opc' = "dispatch"
    /\ Logged(IF kret THEN "handle_killed" ELSE "handle_kill_failed")
    /\ oprocs' = {}
    /\ UNCHANGED <<opts, oenv, oout, db, dbBak, procs>>
    /\ KillReturned
    /\ OrchFrame

\* a process step raises: the handler of execute_cleanup takes over
ProcessStepRaises ==
    /\ opc \in {"handle_check", "handle_get", "aggr_check", "aggr_get"}
    /\ LET h == OnException(ores) IN
        /\ ores' = h.res
        /\ oout' = h.out
    /\ opc' = "done"
    /\ Logged("process_raised")
    /\ UNCHANGED <<opts, oenv, oprocs, db, dbBak>>
    /\ NoKill /\ OrchFrame

\* if options.mode == ...: the step the mode starts with
Dispatch ==
    /\ opc = "dispatch"
    /\ opc' = CASE opts.mode = "database_only" -> "db"
                [] opts.mode = "file_only"     -> "file"
                [] opts.mode = "hybrid"        -> "db"
                [] opts.mode = "aggressive"    -> "aggr_check"
    /\ Logged("dispatch")
    /\ UNCHANGED <<opts, oenv, oprocs, ores, oout, db, dbBak>>
    /\ NoKill /\ OrchFrame

\* _aggressive_cleanup: if self.process_manager.check_ide_processes(ide_type)
AggressiveCheck ==
    /\ opc = "aggr_check"
    /\ opc' = IF procs = {} THEN "db" ELSE "aggr_get"
    /\ Logged(IF procs = {} THEN "aggr_none" ELSE "aggr_found")
    /\ UNCHANGED <<opts, oenv, oprocs, ores, oout, db, dbBak>>
    /\ NoKill /\ OrchFrame

\* processes = get_ide_processes(ide_type); kill_ide_processes(force=True)
AggressiveGet ==
    /\ opc = "aggr_get"
    /\ oprocs' = procs
    /\ KillBegin("aggressive", TRUE)
    /\ opc' = "aggr_kill"
    /\ Logged("kill_force")
    /\ UNCHANGED <<opts, oenv, ores, oout, db, dbBak, procs>>
    /\ OrchFrame

\* if success: result.processes_killed = len(processes)
AggressiveKilled ==
    /\ opc = "aggr_kill"
    /\ kpc = "done"
    /\ ores' = IF kret
               THEN [ores EXCEPT !.processes_killed = Cardinality(oprocs)]
               ELSE ores
    /\ opc' = "db"
    /\ Logged(IF kret THEN "aggr_killed" ELSE "aggr_kill_failed")
    /\ oprocs' = {}
    /\ UNCHANGED <<opts, oenv, oout, db, dbBak, procs>>
    /\ KillReturned
    /\ OrchFrame

\* A slip: the sequence of steps stops at a database error.
AfterDbStopsOnError ==
    IF opts.mode = "database_only" \/ ores'.errors # ores.errors
    THEN "finish" ELSE "file"

\* the step after the database step, by mode
AfterDb == IF opts.mode = "database_only" THEN "finish" ELSE "file"

\* _database_cleanup(ide_type, options, result)
DatabaseCleanup ==
    /\ opc = "db"
    /\ \E fault \in DbFaults :
        LET out == clean_ide_database(StepOptions, db, dbBak, dbKeyword, fault) IN
        /\ db' = out.db
        /\ dbBak' = out.bak
        /\ ores' = IF out.ok
                   THEN [ores EXCEPT !.database_cleaned = TRUE,
                                     !.database_entries_removed = 1]
                   ELSE add_error(ores, "database_failed")
        /\ Logged(IF out.ok THEN "db_ok" ELSE "db_failed")
    /\ opc' = AfterDb
    /\ UNCHANGED <<opts, oenv, oprocs, oout>>
    /\ NoKill /\ OrchFrame

\* clean_ide_database raises: except Exception -> result.add_error
DatabaseCleanupRaises ==
    /\ opc = "db"
    /\ ores' = add_error(ores, "database_exception")
    /\ Logged("db_raised")
    /\ opc' = AfterDb
    /\ UNCHANGED <<opts, oenv, oprocs, oout, db, dbBak>>
    /\ NoKill /\ OrchFrame

\* _file_cleanup(ide_type, options, result)
FileCleanup ==
    /\ opc = "file"
    /\ \E out1 \in UnlinkOutcomes, out2 \in UnlinkOutcomes :
        LET r == clean_ide_files(StepOptions, db, dbBak,
                                 StepOptions.force_delete, out1, out2) IN
        /\ db' = r.db
        /\ dbBak' = r.bak
        /\ ores' = [ores EXCEPT
                      !.global_storage_files = r.globalStorage,
                      !.workspace_storage_files = r.workspaceStorage,
                      !.files_deleted = r.globalStorage + r.workspaceStorage]
        /\ oenv' = [oenv EXCEPT !.unlinkOk = (out1 = "ok")]
    /\ Logged(IF StepOptions.force_delete THEN "file_force" ELSE "file_noforce")
    /\ opc' = "finish"
    /\ UNCHANGED <<opts, oprocs, oout>>
    /\ NoKill /\ OrchFrame

\* clean_ide_files raises: except Exception -> result.add_error
FileCleanupRaises ==
    /\ opc = "file"
    /\ ores' = add_error(ores, "file_exception")
    /\ Logged("file_raised")
    /\ opc' = "finish"
    /\ UNCHANGED <<opts, oenv, oprocs, oout, db, dbBak>>
    /\ NoKill /\ OrchFrame

\* the summary is printed; return result
Finish ==
    /\ opc = "finish"
    /\ opc' = "done"
    /\ oout' = "returned"
    /\ Logged("return")
    /\ UNCHANGED <<opts, oenv, oprocs, ores, db, dbBak>>
    /\ NoKill /\ OrchFrame

\* The environment while a run is under way: processes start and exit.
OrchProcSpawn ==
    /\ EnumeratesNext
    /\ \E p \in Pids \ procs : procs' = procs \cup {p}
    /\ oenv' = [oenv EXCEPT !.acted = TRUE]
    /\ UNCHANGED <<opts, opc, oprocs, ores, olog, oout>>
    /\ UNCHANGED <<killVars, dbVars, patchVars, fileVars, restVars>>

OrchProcExit ==
    /\ EnumeratesNext
    /\ \E p \in procs : procs' = procs \ {p}
    /\ oenv' = [oenv EXCEPT !.acted = TRUE]
    /\ UNCHANGED <<opts, opc, oprocs, ores, olog, oout>>
    /\ UNCHANGED <<killVars, dbVars, patchVars, fileVars, restVars>>

\* a step of kill_ide_processes, called from the orchestrator
OrchKillStandard == opc # "done" /\ KillStandard
OrchKillStandardRaises == opc # "done" /\ KillStandardRaises
OrchKillStdCheck == opc # "done" /\ KillStdCheck
OrchKillForceEnum == opc # "done" /\ KillForceEnum
OrchKillForceKill == opc # "done" /\ KillForceKill
OrchKillFinal == opc # "done" /\ KillFinal

\* VS Code, Cursor and Windsurf take the same branches everywhere; JetBrains
\* takes its own.
OrchIdes == {"vscode", "jetbrains"}

\* A store in which two keys hold the keyword and one does not.
OrchStores ==
    { StoreFile((<<"a", "b">> :> 1) @@ (<<"x", "a", "b">> :> 2)
                    @@ (<<"b">> :> 1)) }

InitOrch ==
    /\ RestIdle
    /\ FileIdle
    /\ PatchIdle
    /\ KillIdle
    /\ procs \in SUBSET Pids
    /\ db \in OrchStores
    /\ dbBak = NoFile
    /\ dbKeyword = <<"a", "b">>
    /\ dbLast = NoCall
    /\ dbPrev = [op |-> "none", ok |-> FALSE, changed |-> FALSE]
    /\ opts \in [ide : OrchIdes, mode : CleanupMode, force_delete : BOOLEAN,
                 kill_processes : BOOLEAN, skip_process_check : BOOLEAN,
                 paths : {"none", "found"}]
    /\ opc = "start"
    /\ oprocs = {}
    /\ ores = CleanupResult
    /\ olog = <<>>
    /\ oout = "none"
    /\ oenv = [n0 |-> Cardinality(procs), acted |-> FALSE, unlinkOk |-> FALSE,
               cli |-> NoCli]

NextOrch ==
    \/ OrchBegin
    \/ HandleCheck
    \/ HandleGet
    \/ HandleKilled
    \/ ProcessStepRaises
    \/ Dispatch
    \/ AggressiveCheck
    \/ AggressiveGet
    \/ AggressiveKilled
    \/ DatabaseCleanup
    \/ DatabaseCleanupRaises
    \/ FileCleanup
    \/ FileCleanupRaises
    \/ Finish
    \/ OrchKillStandard
    \/ OrchKillStandardRaises
    \/ OrchKillStdCheck
    \/ OrchKillForceEnum
    \/ OrchKillForceKill
    \/ OrchKillFinal
    \/ OrchProcSpawn
    \/ OrchProcExit

SpecOrch == InitOrch /\ [][NextOrch]_vars

\* validate_cleanup_options(mode, ide_type)
validate_cleanup_options(mode, ide) ==
    ~(ide = "jetbrains" /\ mode \in {"file_only", "aggressive"})

\* clean_ide_comprehensive(ide_type, mode, keyword, force_delete, kill_processes):
\*   options = CleanupOptions(mode, keyword, force_delete, kill_processes)
\* skip_process_check is not passed on and keeps its default, False.
clean_ide_comprehensive(ide, mode, force_delete, kill_processes, paths) ==
    [ide |-> ide, mode |-> mode, force_delete |-> force_delete,
     kill_processes |-> kill_processes, skip_process_check |-> FALSE,
     paths |-> paths]

\* clean_enhanced_command(ide, mode, keyword, force, kill_processes,
\*                        skip_process_check): the options of the run it starts
\*   kill_processes=kill_processes or not skip_process_check
clean_enhanced_command(ide, mode, force, kill_processes, skip_process_check, paths) ==
    clean_ide_comprehensive(ide, mode, force,
                            kill_processes \/ ~skip_process_check, paths)

\* A run started from the command line: clean-enhanced --ide .. --mode ..
\* [--force] [--kill-processes] [--skip-process-check]
InitCli ==
    /\ RestIdle
    /\ FileIdle
    /\ PatchIdle
    /\ KillIdle
    /\ procs \in SUBSET Pids
    /\ db \in OrchStores
    /\ dbBak = NoFile
    /\ dbKeyword = <<"a", "b">>
    /\ dbLast = NoCall
    /\ dbPrev = [op |-> "none", ok |-> FALSE, changed |-> FALSE]
    /\ \E ide \in OrchIdes, mode \in CleanupMode, force \in BOOLEAN,
          kill \in BOOLEAN, skip \in BOOLEAN, paths \in {"found"} :
        /\ validate_cleanup_options(mode, ide)
        /\ opts = clean_enhanced_command(ide, mode, force, kill, skip, paths)
        /\ oenv = [n0 |-> Cardinality(procs), acted |-> FALSE,
                   unlinkOk |-> FALSE,
                   cli |-> [used |-> TRUE, kill_processes |-> kill,
                            skip_process_check |-> skip]]
    /\ opc = "start"
    /\ oprocs = {}
    /\ ores = CleanupResult
    /\ olog = <<>>
    /\ oout = "none"

SpecCli == InitCli /\ [][NextOrch]_vars

(***************************************************************************)
(* Claims about the orchestrator, checked under SpecOrch.                  *)
(***************************************************************************)
MutationEvents ==
    {"db_ok", "db_failed", "db_raised", "file_force", "file_noforce", "file_raised"}

\* C7: execute_cleanup never raises: whatever the IDE, the mode and the
\* options, and whichever process, database or file step fails or raises,
\* the call ends by returning its CleanupResult.
C7_ExecuteCleanupNeverRaises ==
    /\ oout # "raised"
    /\ opc = "done" => oout = "returned"

\* A run in which the database step and the file step both raised returned
\* a report that records only errors.
C7_Witness ==
    /\ opc = "done"
    /\ oout = "returned"
    /\ ~ores.database_cleaned
    /\ ores.files_deleted = 0
    /\ Len(ores.errors) = 2

\* C8: in Aggressive mode, whatever force_delete, kill_processes and
\* skip_process_check the caller gave, no mutation step starts before the
\* processes were looked for and, when any was found, kill_ide_processes
\* was called with force on; and the file cleanup runs in force mode.
C8_AggressiveForcesKillAndForce ==
    opts.mode = "aggressive" =>
        /\ \A i \in DOMAIN olog : olog[i] # "file_noforce"
        /\ opc = "aggr_kill" => kcall.force
        /\ \A i \in DOMAIN olog :
            olog[i] \in MutationEvents =>
                \E j \in 1..(i - 1) :
                    \/ olog[j] = "aggr_none"
                    \/ /\ olog[j] = "kill_force"
                       /\ \E k \in 1..(j - 1) : olog[k] = "aggr_found"

\* An Aggressive run whose caller asked for no kill, no forced deletion and
\* no process check killed the processes it found and deleted in force mode.
C8_Witness ==
    /\ opts.mode = "aggressive"
    /\ ~opts.force_delete /\ ~opts.kill_processes /\ opts.skip_process_check
    /\ opc = "done"
    /\ \E i, j \in DOMAIN olog :
        i < j /\ olog[i] = "aggr_killed" /\ olog[j] = "file_force"
    /\ ores.processes_killed > 0

FileStepRan == \E i \in DOMAIN olog : olog[i] \in {"file_force", "file_noforce"}

\* C18: a run whose file cleanup left an existing target file in place ends
\* with at least one error or warning in its report.
C18_DeletionFailureReported ==
    (opc = "done" /\ oout = "returned" /\ FileStepRan
        /\ PathsOf(opts) = "found" /\ (db.exists \/ dbBak.exists))
    => (ores.errors # <<>> \/ ores.warnings # <<>>)

\* C19: the backup the database step of a run made still exists when the
\* run has returned.
C19_BackupsOutliveRun ==
    (opc = "done" /\ PathsOf(opts) = "found" /\ opts.ide # "jetbrains"
        /\ \E i \in DOMAIN olog : olog[i] = "db_ok")
    => dbBak.exists

RowCount(store) == Cardinality(DOMAIN store.rows)

\* C20: when the database step of a run succeeds, the report's
\* entries-removed counter is the number of rows the step removed from the
\* store.
C20_EntriesRemovedIsRowCount ==
    [][(opc = "db" /\ opc' # "db" /\ ores'.database_cleaned)
        => ores'.database_entries_removed = RowCount(db) - RowCount(db')]_vars

InLog(e) == \E i \in DOMAIN olog : olog[i] = e

\* The run of C21: Aggressive, the IDE's paths found, n > 0 matching
\* processes at the start, none starting or ending by itself, and no
\* termination call of the run gave up with a process left.
AggressiveScenario ==
    /\ opts.mode = "aggressive"
    /\ PathsOf(opts) = "found"
    /\ oenv.n0 > 0
    /\ ~oenv.acted
    /\ ~InLog("handle_kill_failed") /\ ~InLog("aggr_kill_failed")
    /\ ~InLog("process_raised")

\* C21: in such a run no matching process is left when the file deletion
\* starts; and when the database step succeeded and nothing but those
\* processes held state.vscdb (its unlink went through), the returned
\* report has processes_killed = n, files_deleted >= 1 and no errors.
C21_AggressiveKillsThenDeletes ==
    AggressiveScenario =>
        /\ opc = "file" => (procs = {} /\ ores.processes_killed = oenv.n0)
        /\ (opc = "done" /\ InLog("db_ok") /\ oenv.unlinkOk) =>
                /\ oout = "returned"
                /\ ores.processes_killed = oenv.n0
                /\ ores.files_deleted >= 1
                /\ ~db.exists
                /\ ores.errors = <<>>

\* Such a run with every process of the table running at its start, ended
\* by the Aggressive step's own forced kill.
C21_Witness ==
    /\ AggressiveScenario
    /\ oenv.n0 = MaxProcs
    /\ opc = "done" /\ InLog("db_ok") /\ oenv.unlinkOk
    /\ InLog("aggr_killed")
    /\ ores.processes_killed = MaxProcs

HasWarning(w) == \E i \in DOMAIN ores.warnings : ores.warnings[i] = w

\* The mutation steps of the run's mode have run, in the mode's order.
ModeStepsRan ==
    LET dbRan == InLog("db_ok") \/ InLog("db_failed") \/ InLog("db_raised")
        fileRan == InLog("file_force") \/ InLog("file_noforce") \/ InLog("file_raised")
    IN CASE opts.mode = "database_only" -> dbRan
         [] opts.mode = "file_only"     -> fileRan
         [] OTHER                       -> dbRan /\ fileRan

\* C23: a run in which a call of kill_ide_processes returned False ends by
\* returning a report that holds the warning about processes that could not
\* be terminated and no error from an exception, after running the mutation
\* steps of its mode (runs in which a process listing itself raised aside).
C23_KillFailureReported ==
    (opc = "done" /\ ~InLog("process_raised")
        /\ (InLog("handle_kill_failed") \/ InLog("aggr_kill_failed")))
    => /\ oout = "returned"
       /\ HasWarning("kill_incomplete")
       /\ \A i \in DOMAIN ores.errors : ores.errors[i] # "cleanup_error"
       /\ ModeStepsRan

\* whether sequence s is the beginning of sequence t
IsPrefix(s, t) == Len(s) <= Len(t) /\ SubSeq(t, 1, Len(s)) = s

\* C26: from the creation of the CleanupResult to its return no counter of
\* the report gets smaller and no error or warning entry is removed.
C26_CountersNeverDecrease ==
    [][opc \notin {"idle", "done"} =>
        /\ ores'.database_entries_removed >= ores.database_entries_removed
        /\ ores'.files_deleted >= ores.files_deleted
        /\ ores'.global_storage_files >= ores.global_storage_files
        /\ ores'.workspace_storage_files >= ores.workspace_storage_files
        /\ ores'.processes_killed >= ores.processes_killed
        /\ IsPrefix(ores.errors, ores'.errors)
        /\ IsPrefix(ores.warnings, ores'.warnings)]_vars

HasError(e) == \E i \in DOMAIN ores.errors : ores.errors[i] = e

DbStepFailed == InLog("db_failed") \/ InLog("db_raised")

\* C28: in Hybrid and Aggressive modes a database step that failed or
\* raised left an error entry in the report, the file step is what the run
\* does next, and a run that has returned ran the file step after it.
C28_DbFailureStaysLocal ==
    (opts.mode \in {"hybrid", "aggressive"} /\ DbStepFailed) =>
        /\ InLog("db_failed") => HasError("database_failed")
        /\ InLog("db_raised") => HasError("database_exception")
        /\ opc \in {"file", "finish", "done"}
        /\ opc \in {"finish", "done"} =>
            \E i, j \in DOMAIN olog :
                /\ i < j
                /\ olog[i] \in {"db_failed", "db_raised"}
                /\ olog[j] \in {"file_force", "file_noforce", "file_raised"}
        /\ opc = "done" => oout = "returned"

\* A Hybrid run whose database step raised went on to delete a file and
\* returned a report with that one error.
C28_Witness ==
    /\ opts.mode = "hybrid"
    /\ opc = "done"
    /\ InLog("db_raised")
    /\ ores.errors = <<"database_exception">>
    /\ ores.files_deleted >= 1
    /\ ~db.exists

\* The last enumeration of the process steps found a process and no kill
\* followed it, or the kill that followed it reported failure.
ProcessesRemained ==
    \/ opts.mode # "aggressive"
          /\ (InLog("handle_warned") \/ InLog("handle_kill_failed"))
    \/ InLog("aggr_kill_failed")

\* C34: a run whose last process enumeration found a matching process
\* (no kill was asked for, or the kill failed) leaves the store and its
\* backup as they were.
C34_NoMutationWhileProcessesRemain ==
    ProcessesRemained => (db \in OrchStores /\ dbBak = NoFile)

\* C38: a clean-enhanced run in a mode other than Aggressive that was
\* started without --kill-processes never starts a kill; when it finds
\* running processes it records the warning instead.
C38_KillOnlyWithFlag ==
    (oenv.cli.used /\ opts.mode # "aggressive" /\ ~oenv.cli.kill_processes)
        => /\ ~InLog("kill_force")
           /\ kstat = NoStat
           /\ ores.processes_killed = 0
           /\ (InLog("handle_found") /\ InLog("dispatch"))
                 => HasWarning("close_ide_first")

(***************************************************************************)
(* File cleaner: FileCleaner.clean_ide_files, one safe_delete_file step    *)
(* per action.  A pass visits the TARGET_FILES of globalStorage, then      *)
(* those of every subdirectory of workspaceStorage.                        *)
(***************************************************************************)
FileFrame == UNCHANGED <<dbVars, patchVars, procs, killVars, orchVars, restVars>>

\* the path after <<dir, idx>> in the order of the pass, <<>> after the last
NextPath(dir, idx) ==
    IF idx < Len(TARGET_FILES) THEN <<dir, idx + 1>>
    ELSE IF dir < MaxWorkspaces THEN <<dir + 1, 1>>
    ELSE <<>>

\* A slip: a forced-removal command that completed counts as a removal.
CommandVerdictByExit(gone, completed) == completed

\* _windows_force_delete: if not file_path.exists(): return True
CommandVerdict(gone, completed) == gone

\* safe_delete_file returns v
DeleteReturns(v) == fd' = [fd EXCEPT !.stage = "done", !.ret = v]

\* the removal succeeded: the file is gone and the call returns True
Removed ==
    /\ fs' = [fs EXCEPT ![fd.path] = FALSE]
    /\ DeleteReturns(TRUE)

\* clean_ide_files(ide_type, force_mode) up to the first file:
\*   paths = get_ide_paths(ide_type); if not paths: return zeros
FilePassBegin ==
    /\ fc.pc = "idle"
    /\ \E force \in BOOLEAN, windows \in BOOLEAN, paths \in {"found", "none"} :
        fc' = [NoPass EXCEPT !.pc = IF paths = "found" THEN "pass" ELSE "done",
                             !.out = IF paths = "found" THEN "none" ELSE "returned",
                             !.force = force, !.windows = windows,
                             !.paths = paths,
                             !.had = {p \in TargetPaths : fs[p]}]
    /\ UNCHANGED <<fs, fd>>
    /\ FileFrame

\* safe_delete_file(file_path, force_mode): if not file_path.exists(): return False
FileDeleteBegin ==
    /\ fc.pc = "pass"
    /\ fd.stage = "none"
    /\ LET path == <<fc.dir, fc.idx>> IN
        /\ fd' = IF fs[path]
                 THEN [NoDelete EXCEPT !.stage = "unlink", !.path = path,
                                       !.existed = TRUE]
                 ELSE [NoDelete EXCEPT !.stage = "done", !.path = path]
        /\ fc' = [fc EXCEPT !.attempted = @ \cup {path}]
    /\ UNCHANGED fs
    /\ FileFrame

\* file_path.exists() raises (the file cannot be examined): the exception
\* leaves safe_delete_file.  In _clean_global_storage nothing catches it
\* and it leaves clean_ide_files; in _clean_workspace_storage the handler
\* around the whole loop returns 0.
FileStatRaises ==
    /\ fc.pc = "pass"
    /\ fd.stage = "none"
    /\ fc' = [fc EXCEPT !.attempted = @ \cup {<<fc.dir, fc.idx>>},
                        !.pc = "done",
                        !.out = IF fc.dir = 0 THEN "raised" ELSE "returned",
                        !.workspaceStorage = 0]
    /\ UNCHANGED <<fs, fd>>
    /\ FileFrame

\* A slip: a locked file is forced whatever force_mode says.
ForceDeleteUnasked(force_mode, outcome) == outcome = "locked"

\* except (PermissionError, OSError) as e:
\*     if e.errno in [13, 32]: if force_mode: return self._force_delete_file(..)
ForceDelete(force_mode, outcome) == force_mode /\ outcome = "locked"

\* file_path.unlink() and its handlers; "locked" is errno 13 or 32, "error"
\* any other failure
FileUnlink ==
    /\ fd.stage = "unlink"
    /\ \E outcome \in {"ok", "locked", "error"} :
        IF outcome = "ok" THEN Removed
        ELSE /\ fd' = [fd EXCEPT
                         !.stage = IF ForceDelete(fc.force, outcome)
                                   THEN "force_retry" ELSE "done",
                         !.ret = FALSE,
                         !.errno = outcome]
             /\ UNCHANGED fs
    /\ UNCHANGED fc
    /\ FileFrame

\* _force_delete_file: time.sleep(1); file_path.unlink() again
FileForceRetry ==
    /\ fd.stage = "force_retry"
    /\ \/ Removed
       \/ /\ fd' = [fd EXCEPT !.stage = IF fc.windows THEN "force_kill"
                                        ELSE "unix_force"]
          /\ UNCHANGED fs
    /\ UNCHANGED fc
    /\ FileFrame

\* Windows: find_processes_using_file, _kill_occupying_processes, unlink
FileForceKill ==
    /\ fd.stage = "force_kill"
    /\ \/ Removed
       \/ /\ fd' = [fd EXCEPT !.stage = "win_cmd", !.method = 1]
          /\ UNCHANGED fs
    /\ UNCHANGED fc
    /\ FileFrame

\* _windows_force_delete: one of the three commands, then the re-check
FileWindowsCommand ==
    /\ fd.stage = "win_cmd"
    /\ \E gone \in BOOLEAN, completed \in BOOLEAN :
        /\ fs' = [fs EXCEPT ![fd.path] = ~gone]
        /\ IF completed /\ CommandVerdict(gone, completed)
           THEN DeleteReturns(TRUE)
           ELSE fd' = [fd EXCEPT
                         !.stage = IF fd.method < 3 THEN "win_cmd" ELSE "win_final",
                         !.method = IF fd.method < 3 THEN fd.method + 1 ELSE 0,
                         !.noEffect = @ \/ (completed /\ ~gone)]
    /\ UNCHANGED fc
    /\ FileFrame

\* _windows_force_delete: time.sleep(5); the last file_path.unlink()
FileWindowsFinal ==
    /\ fd.stage = "win_final"
    /\ \/ fs[fd.path] /\ Removed
       \/ DeleteReturns(FALSE) /\ UNCHANGED fs
    /\ UNCHANGED fc
    /\ FileFrame

\* _unix_force_delete: os.chmod(file_path, 0o777); file_path.unlink()
FileUnixForce ==
    /\ fd.stage = "unix_force"
    /\ \/ Removed
       \/ DeleteReturns(FALSE) /\ UNCHANGED fs
    /\ UNCHANGED fc
    /\ FileFrame

\* if self.safe_delete_file(file_path, force_mode): deleted_count += 1;
\* then the next file of the loop, or the return of the counts
FileDeleteReturn ==
    /\ fc.pc = "pass"
    /\ fd.stage = "done"
    /\ LET next == NextPath(fc.dir, fc.idx)
           g == fc.globalStorage + (IF fc.dir = 0 /\ fd.ret THEN 1 ELSE 0)
           w == fc.workspaceStorage + (IF fc.dir # 0 /\ fd.ret THEN 1 ELSE 0)
       IN fc' = IF next = <<>>
                THEN [fc EXCEPT !.globalStorage = g, !.workspaceStorage = w,
                                !.pc = "done", !.out = "returned"]
                ELSE [fc EXCEPT !.globalStorage = g, !.workspaceStorage = w,
                                !.dir = next[1], !.idx = next[2]]
    /\ fd' = IF NextPath(fc.dir, fc.idx) = <<>> THEN fd ELSE NoDelete
    /\ UNCHANGED fs
    /\ FileFrame

\* the caller has the counts (or the exception); the next pass can start
FilePassReturn ==
    /\ fc.pc = "done"
    /\ fc' = NoPass
    /\ fd' = NoDelete
    /\ UNCHANGED fs
    /\ FileFrame

InitFile ==
    /\ RestIdle
    /\ DbIdle
    /\ PatchIdle
    /\ procs = {}
    /\ KillIdle
    /\ OrchIdle
    /\ fs \in [TargetPaths -> BOOLEAN]
    /\ fc = NoPass
    /\ fd = NoDelete

NextFile ==
    \/ FilePassBegin
    \/ FileDeleteBegin
    \/ FileStatRaises
    \/ FileUnlink
    \/ FileForceRetry
    \/ FileForceKill
    \/ FileWindowsCommand
    \/ FileWindowsFinal
    \/ FileUnixForce
    \/ FileDeleteReturn
    \/ FilePassReturn

SpecFile == InitFile /\ [][NextFile]_vars

(***************************************************************************)
(* Claims about the file cleaner, checked under SpecFile.                  *)
(***************************************************************************)
DeleteDone == fd.stage = "done"

\* C15: safe_delete_file returns True only if the file does not exist when
\* it returns; a forced-removal command that completed while the file still
\* exists is not taken for a removal.
C15_TrueOnlyIfFileGone ==
    (DeleteDone /\ fd.ret) => ~fs[fd.path]

\* C15's case: a forced command completed with the file still in place, the
\* escalation went on, and a later step removed the file.
C15_Witness ==
    DeleteDone /\ fd.ret /\ fd.noEffect /\ ~fs[fd.path]

\* C16: a delete attempt on a path where no file exists returns True.
C16_MissingFileReportsSuccess ==
    (DeleteDone /\ ~fd.existed) => fd.ret

\* C17: when the pass has ended (with the paths found), safe_delete_file was
\* called for every target file of globalStorage and of every workspace
\* subdirectory, whichever deletions failed.
C17_EveryTargetAttempted ==
    (fc.pc = "done" /\ fc.paths = "found") => fc.attempted = TargetPaths

\* The target files under workspaceStorage that were there when the pass
\* began and are gone now.
WorkspaceFilesDeleted == {p \in fc.had : p[1] # 0 /\ ~fs[p]}

\* C35: the workspaceStorage count a pass returns is the number of target
\* files it deleted in the workspace subdirectories, also when a later
\* subdirectory could not be read.
C35_WorkspaceCountIsDeletions ==
    (fc.pc = "done" /\ fc.out = "returned" /\ fc.paths = "found" /\ ~fc.windows)
        => fc.workspaceStorage = Cardinality(WorkspaceFilesDeleted)

\* the steps of _force_delete_file and of the two forced deletions
ForcedStages == {"force_retry", "force_kill", "win_cmd", "win_final", "unix_force"}

\* the stage a stage of safe_delete_file can be followed by
StageFollows(from, to) ==
    CASE from = "none"        -> to \in {"unlink", "done"}
      [] from = "unlink"      -> to \in {"force_retry", "done"}
      [] from = "force_retry" -> to \in {"force_kill", "unix_force", "done"}
      [] from = "force_kill"  -> to \in {"win_cmd", "done"}
      [] from = "win_cmd"     -> to \in {"win_final", "done"}
      [] from = "win_final"   -> to = "done"
      [] from = "unix_force"  -> to = "done"
      [] from = "done"        -> to = "none"

\* C33: without force_mode safe_delete_file makes its one unlink attempt
\* and returns, and no step of the forced deletion is ever taken; with
\* force_mode the forced steps are taken only after the unlink failed with
\* errno 13 or 32, in their order, each with the file still in place after
\* the step before it.
C33_ForceOnlyWhenAskedAndLocked ==
    /\ [](fd.stage \in ForcedStages
            => (fc.force /\ fd.errno = "locked" /\ fd.existed))
    /\ [][(fd'.stage # fd.stage) => StageFollows(fd.stage, fd'.stage)]_vars
    /\ [][(~fc.force /\ fd.stage = "unlink" /\ fd' # fd)
            => (fd'.stage = "done")]_vars
    /\ [][(fd'.stage \in {"force_kill", "unix_force", "win_cmd"}
               /\ fd'.stage # fd.stage)
            => fs'[fd.path]]_vars

\* A forced deletion on Windows went through every step: the unlink hit a
\* locking error, the retry and the holders' termination did not help, a
\* forced command completed without effect, and the file went in the end.
C33_Witness ==
    /\ fd.stage = "done" /\ fd.ret
    /\ fc.force /\ fc.windows
    /\ fd.errno = "locked" /\ fd.noEffect

(***************************************************************************)
(* Identifier regeneration: modify_vscode_telemetry_ids on storage.json.    *)
(* A settings file is its layout on disk and the JSON value it parses to;   *)
(* the identifiers are strings, the generated ones drawn from small sets.   *)
(***************************************************************************)
TelFrame ==
    UNCHANGED <<dbVars, patchVars, procs, killVars, orchVars, fileVars,
                workVars, pathVars, guiVars>>

\* generate_new_machine_id(), generate_new_device_id(): the values they can give
MachineIds == {"m1", "m2"}
DeviceIds == {"d1", "d2"}

\* the identifier fields of the files at the start
OldMachine == {Absent, "m0", "m1"}
OldDevice == {Absent, "d0", "d1"}

\* data['telemetry']: no such key, a value that is no dict, or a dict
Telemetries ==
    {[kind |-> "absent", machineId |-> Absent, devDeviceId |-> Absent, other |-> Absent],
     [kind |-> "string", machineId |-> Absent, devDeviceId |-> Absent, other |-> Absent]}
    \cup {[kind |-> "object", machineId |-> m, devDeviceId |-> d, other |-> "w"] :
            m \in OldMachine, d \in OldDevice}

\* the JSON values of the files at the start: objects, and an array
Datas ==
    {[kind |-> "object", machineId |-> m, other |-> "v", telemetry |-> t] :
        m \in OldMachine, t \in Telemetries}
    \cup {[NoData EXCEPT !.kind = "array"]}

\* json.dump(data, f, indent=4): the file it writes
json_dump(data) == [exists |-> TRUE, layout |-> "indent4", data |-> data]

\* json.load(f): the value of the text, or JSONDecodeError
json_load(file) ==
    IF file.layout \in {"invalid", "truncated"}
    THEN [ok |-> FALSE, data |-> NoData]
    ELSE [ok |-> TRUE, data |-> file.data]

\* open(path, 'w') has truncated the file and the write did not go through
Truncated == [exists |-> TRUE, layout |-> "truncated", data |-> NoData]

SettingsFiles ==
    {NoSettings}
    \cup {[exists |-> TRUE, layout |-> "invalid", data |-> NoData]}
    \cup {[exists |-> TRUE, layout |-> l, data |-> d] :
            l \in {"compact", "indent4"}, d \in Datas}

\* A slip: the nested machineId is left as it was.
SetIdsRootOnly(data, machine, device) ==
    [data EXCEPT
        !.machineId = IF @ # Absent THEN machine ELSE @,
        !.telemetry.devDeviceId =
            IF data.telemetry.kind = "object" /\ @ # Absent THEN device ELSE @]

\* lines 98-123: the value of data after the three updates
SetIds(data, machine, device) ==
    [data EXCEPT
        !.machineId = IF @ # Absent THEN machine ELSE @,
        !.telemetry.machineId =
            IF data.telemetry.kind = "object" /\ @ # Absent THEN machine ELSE @,
        !.telemetry.devDeviceId =
            IF data.telemetry.kind = "object" /\ @ # Absent THEN device ELSE @]

\* A slip: the file is written whether or not an identifier changed.
ModifiedAlways(data, machine, device) == TRUE

\* lines 99-123: the flag modified after the three updates
Modified(data, machine, device) ==
    \/ data.machineId # Absent /\ data.machineId # machine
    \/ /\ data.telemetry.kind = "object"
       /\ \/ data.telemetry.machineId # Absent /\ data.telemetry.machineId # machine
          \/ data.telemetry.devDeviceId # Absent /\ data.telemetry.devDeviceId # device

TelOutcome(f, b, ok, wrote, compared) ==
    [file |-> f, bak |-> b, ok |-> ok, wrote |-> wrote, compared |-> compared]

TelFaults == {"none", "backup", "read", "write", "write_norestore"}

\* modify_vscode_telemetry_ids(storage_json_path) with the generated
\* identifiers machine and device
modify_vscode_telemetry_ids(file, bak, machine, device, fault) ==
    IF ~file.exists THEN TelOutcome(file, bak, FALSE, FALSE, FALSE)
    ELSE IF fault = "backup" THEN TelOutcome(file, bak, FALSE, FALSE, FALSE)
    ELSE
    LET loaded == json_load(file) IN
    IF fault = "read" \/ ~loaded.ok
    THEN TelOutcome(file, file, FALSE, FALSE, FALSE)
    ELSE IF ~Modified(loaded.data, machine, device)
    THEN TelOutcome(file, file, TRUE, FALSE, TRUE)
    \* the handler's shutil.copy2(backup_path, storage_json_path) goes through
    ELSE IF fault = "write" THEN TelOutcome(file, file, FALSE, TRUE, TRUE)
    \* ... or fails too: except Exception as restore_e, and return False
    ELSE IF fault = "write_norestore"
    THEN TelOutcome(Truncated, file, FALSE, TRUE, TRUE)
    ELSE TelOutcome(json_dump(SetIds(loaded.data, machine, device)), file,
                    TRUE, TRUE, TRUE)

\* a call of modify_vscode_telemetry_ids
ModifyTelemetryIds ==
    /\ \E machine \in MachineIds, device \in DeviceIds, fault \in TelFaults :
        LET out == modify_vscode_telemetry_ids(tfile, tbak, machine, device, fault) IN
        /\ tfile' = out.file
        /\ tbak' = out.bak
        /\ tlast' = [op |-> "modify", ok |-> out.ok, wrote |-> out.wrote,
                     compared |-> out.compared,
                     machine |-> machine, device |-> device, before |-> tfile,
                     prev |-> [ok |-> tlast.ok, machine |-> tlast.machine,
                               device |-> tlast.device]]
    /\ TelFrame

InitTel ==
    /\ GuiIdle
    /\ DbIdle
    /\ PatchIdle
    /\ procs = {}
    /\ KillIdle
    /\ OrchIdle
    /\ FileIdle
    /\ WorkIdle
    /\ PathIdle
    /\ tfile \in SettingsFiles
    /\ tbak = NoSettings
    /\ tlast = NoTelCall

NextTel == ModifyTelemetryIds

SpecTel == InitTel /\ [][NextTel]_vars

(***************************************************************************)
(* Claims about identifier regeneration, checked under SpecTel.            *)
(***************************************************************************)
\* the file the last call found holds all three identifier fields
HasAllIds(data) ==
    /\ data.kind = "object" /\ data.machineId # Absent
    /\ data.telemetry.kind = "object"
    /\ data.telemetry.machineId # Absent
    /\ data.telemetry.devDeviceId # Absent

\* C24: after a successful call on a file with a root machineId, a nested
\* telemetry.machineId and a telemetry.devDeviceId, both machineId fields
\* hold the generated machine id, devDeviceId holds the generated device
\* id, and every other field is as it was.
C24_AllLocationsUpdated ==
    (tlast.op = "modify" /\ tlast.ok /\ HasAllIds(tlast.before.data)) =>
        /\ tfile.exists
        /\ json_load(tfile).ok
        /\ LET old == tlast.before.data
               new == json_load(tfile).data
           IN /\ new.machineId = tlast.machine
              /\ new.telemetry.machineId = tlast.machine
              /\ new.telemetry.devDeviceId = tlast.device
              /\ new.kind = old.kind
              /\ new.other = old.other
              /\ new.telemetry.kind = old.telemetry.kind
              /\ new.telemetry.other = old.telemetry.other

\* A call that had to change all three fields of a compact file succeeded.
C24_Witness ==
    /\ tlast.op = "modify" /\ tlast.ok /\ tlast.wrote
    /\ HasAllIds(tlast.before.data)
    /\ tlast.before.layout = "compact"
    /\ tlast.before.data.machineId = "m0"
    /\ tlast.before.data.telemetry.machineId = "m1"
    /\ tlast.before.data.telemetry.devDeviceId = "d0"
    /\ tlast.machine = "m2"

\* every identifier field present in data equals the generated value
NothingToChange(data, machine, device) ==
    /\ data.machineId \in {Absent, machine}
    /\ data.telemetry.machineId \in {Absent, machine}
    /\ data.telemetry.devDeviceId \in {Absent, device}

\* C25: a call that got as far as comparing (the file exists, its backup was
\* made, its JSON was read) and found every identifier field present equal
\* to the generated value, or none present, returned True and left the
\* settings file unwritten; so a call made with the identifiers of a
\* successful call just before it does.
C25_NoWriteWhenNothingChanges ==
    /\ (tlast.compared
          /\ NothingToChange(tlast.before.data, tlast.machine, tlast.device))
        => (tlast.ok /\ ~tlast.wrote /\ tfile = tlast.before)
    /\ (tlast.compared /\ tlast.prev.ok
          /\ tlast.machine = tlast.prev.machine
          /\ tlast.device = tlast.prev.device)
        => (tlast.ok /\ ~tlast.wrote /\ tfile = tlast.before)

\* A second call with the identifiers of the successful first one found all
\* three fields already set and wrote nothing.
C25_Witness ==
    /\ tlast.compared /\ tlast.prev.ok
    /\ tlast.machine = tlast.prev.machine /\ tlast.device = tlast.prev.device
    /\ HasAllIds(tlast.before.data)
    /\ tlast.before.layout = "indent4"
    /\ tlast.ok /\ ~tlast.wrote

\* C36: a call that returns False after it made its backup leaves the
\* settings file with the content it had before the call.
C36_FailureRestoresSettings ==
    (tlast.op = "modify" /\ ~tlast.ok
        /\ tlast.before.exists /\ tbak = tlast.before)
        => tfile = tlast.before

(***************************************************************************)
(* The one-click worker: RunAllWorker.run on its thread, and the window's  *)
(* closeEvent, which cancels it from the GUI thread.  A step of the run is *)
(* the call it makes; what the call does to the store and the settings     *)
(* file is the business of the sections above, here it only succeeds,      *)
(* fails or raises.                                                        *)
(***************************************************************************)
WorkFrame ==
    UNCHANGED <<dbVars, patchVars, killVars, orchVars, fileVars, telVars,
                pathVars, guiVars>>

Did(e) == wlog' = Append(wlog, e)
DidBoth(e, f) == wlog' = Append(Append(wlog, e), f)

\* run() begins: the first progress messages, then _close_ide() lists the
\* processes
WorkerRun ==
    /\ wk.pc = "created"
    /\ wk' = [wk EXCEPT !.pc = "close", !.queue = procs]
    /\ Did("step_close")
    /\ UNCHANGED procs
    /\ WorkFrame

\* _close_ide: one round of the loop over a matching process
CloseIdeRound ==
    /\ wk.pc = "close"
    /\ wk.queue # {}
    /\ IF wk.is_cancelled
       THEN /\ wk' = [wk EXCEPT !.pc = "after_close", !.queue = {}]
            /\ UNCHANGED <<procs, wlog>>
       ELSE \E p \in wk.queue, gone \in BOOLEAN :
            /\ wk' = [wk EXCEPT !.queue = @ \ {p}]
            /\ procs' = IF gone THEN procs \ {p} ELSE procs
            /\ DidBoth("terminate", "report_close")
    /\ WorkFrame

\* _close_ide: the loop is over
CloseIdeEnd ==
    /\ wk.pc = "close"
    /\ wk.queue = {}
    /\ wk' = [wk EXCEPT !.pc = "after_close"]
    /\ UNCHANGED <<procs, wlog>>
    /\ WorkFrame

\* if self.is_cancelled: return; else step 2 is announced and
\* clean_ide_database is called
AfterClose ==
    /\ wk.pc = "after_close"
    /\ IF wk.is_cancelled
       THEN /\ wk' = [wk EXCEPT !.pc = "returned"]
            /\ UNCHANGED wlog
       ELSE /\ wk' = [wk EXCEPT !.pc = "db"]
            /\ Did("db")
    /\ UNCHANGED procs
    /\ WorkFrame

\* db_success = clean_ide_database(self.ide_type, self.keyword) returns
DbStepReturns ==
    /\ wk.pc = "db"
    /\ \E ok \in BOOLEAN : wk' = [wk EXCEPT !.pc = "after_db", !.db_success = ok]
    /\ UNCHANGED <<procs, wlog>>
    /\ WorkFrame

\* if self.is_cancelled: return; else the database result is reported,
\* step 3 is announced and modify_ide_telemetry_ids is called
AfterDbStep ==
    /\ wk.pc = "after_db"
    /\ IF wk.is_cancelled
       THEN /\ wk' = [wk EXCEPT !.pc = "returned"]
            /\ UNCHANGED wlog
       ELSE /\ wk' = [wk EXCEPT !.pc = "ids"]
            /\ DidBoth("report_db", "ids")
    /\ UNCHANGED procs
    /\ WorkFrame

\* id_success = modify_ide_telemetry_ids(self.ide_type) returns
IdsStepReturns ==
    /\ wk.pc = "ids"
    /\ \E ok \in BOOLEAN : wk' = [wk EXCEPT !.pc = "after_ids", !.id_success = ok]
    /\ UNCHANGED <<procs, wlog>>
    /\ WorkFrame

\* if self.is_cancelled: return; else the result of step 3 and the overall
\* result are reported and task_completed is emitted
AfterIdsStep ==
    /\ wk.pc = "after_ids"
    /\ wk' = [wk EXCEPT !.pc = "returned"]
    /\ IF wk.is_cancelled
       THEN UNCHANGED wlog
       ELSE DidBoth("report_ids",
                    IF wk.db_success /\ wk.id_success
                    THEN "task_completed_true" ELSE "task_completed_false")
    /\ UNCHANGED procs
    /\ WorkFrame

\* a step raises: except Exception -> self.task_completed.emit(False)
WorkerStepRaises ==
    /\ wk.pc \in {"db", "ids"}
    /\ wk' = [wk EXCEPT !.pc = "returned"]
    /\ Did("task_completed_false")
    /\ UNCHANGED procs
    /\ WorkFrame

\* MainWindow.closeEvent: self.main_page.current_worker.cancel()
CloseEvent ==
    /\ wk.pc \notin {"none", "returned"}
    /\ ~wk.is_cancelled
    /\ wk' = [wk EXCEPT !.is_cancelled = TRUE]
    /\ Did("cancel")
    /\ UNCHANGED procs
    /\ WorkFrame

InitWork ==
    /\ GuiIdle
    /\ DbIdle
    /\ PatchIdle
    /\ KillIdle
    /\ OrchIdle
    /\ FileIdle
    /\ TelIdle
    /\ PathIdle
    /\ procs \in SUBSET Pids
    /\ wk = [NoWorker EXCEPT !.pc = "created"]
    /\ wlog = <<>>

NextWork ==
    \/ WorkerRun
    \/ CloseIdeRound
    \/ CloseIdeEnd
    \/ AfterClose
    \/ DbStepReturns
    \/ AfterDbStep
    \/ IdsStepReturns
    \/ AfterIdsStep
    \/ WorkerStepRaises
    \/ CloseEvent

SpecWork == InitWork /\ [][NextWork]_vars

(***************************************************************************)
(* Claims about the worker, checked under SpecWork.                        *)
(***************************************************************************)
Emitted(e) == \E i \in DOMAIN wlog : wlog[i] = e

WorkSteps == {"terminate", "db", "ids"}

\* the step whose call is logged at position i has its result reported
Reported(i) ==
    \E j \in DOMAIN wlog :
        /\ j > i
        /\ wlog[j] = CASE wlog[i] = "terminate" -> "report_close"
                       [] wlog[i] = "db"        -> "report_db"
                       [] wlog[i] = "ids"       -> "report_ids"

\* C27: once cancellation is requested the run starts no further step, and
\* a cancelled run that has returned delivered a result: the completion
\* signal, or a report of every step it performed.
C27_CancelStopsAndStillReports ==
    /\ \A i, j \in DOMAIN wlog :
        (i < j /\ wlog[i] = "cancel") => wlog[j] \notin WorkSteps
    /\ (wk.pc = "returned" /\ wk.is_cancelled) =>
        \/ Emitted("task_completed_true")
        \/ Emitted("task_completed_false")
        \/ \A i \in DOMAIN wlog : wlog[i] \in WorkSteps => Reported(i)

(***************************************************************************)
(* Path resolution: get_ide_paths(ide_type, auto_search).  The machine is  *)
(* its system, whether state.vscdb and storage.json exist at the default   *)
(* location of the IDE asked for (for Windsurf: in the first candidate     *)
(* directory that holds one), what a search of the other locations would   *)
(* come up with, and whether resolving the defaults raises (Path.home()    *)
(* with no home directory, exists() on a directory that may not be read).  *)
(***************************************************************************)
PathFrame ==
    UNCHANGED <<dbVars, patchVars, procs, killVars, orchVars, fileVars,
                telVars, workVars, guiVars>>

\* platform.system(), and on Windows whether APPDATA is set
Systems == {"Windows", "WindowsNoAppdata", "Darwin", "Linux", "Other"}

SearchOutcomes == {"found", "nothing", "raises"}

\* The candidates a search comes upon, in the order it visits them: the
\* modification time of each (every one of them holds an expected artifact).
MaxCands == 2
MTimes == 1..2
CandLists == UNION {[1..n -> MTimes] : n \in 0..MaxCands}

Machines ==
    {m \in [system : Systems, state_db : BOOLEAN, storage_json : BOOLEAN,
            search : SearchOutcomes, raises : BOOLEAN, cands : CandLists] :
        (m.search = "found") = (m.cands # <<>>)}

\* The default template of the IDE can be built on this machine.
TemplateAvailable(ide, env) ==
    CASE ide = "jetbrains" -> FALSE
      [] ide = "windsurf"  -> TRUE
      [] OTHER             -> env.system \in {"Windows", "Darwin", "Linux"}

\* state_db_exists or storage_json_exists, at the default location
DefaultExists(ide, env) ==
    TemplateAvailable(ide, env) /\ (env.state_db \/ env.storage_json)

\* Where the try block can raise: Path.home() (macOS, Linux, and always in
\* detect_windsurf_paths), or exists() in the check made when auto_search.
CanRaise(ide, env, auto_search) ==
    \/ ide = "windsurf"
    \/ env.system \in {"Darwin", "Linux"}
    \/ auto_search

\* auto_search_ide_paths(ide_type): paths it found, None, or it raises
auto_search_ide_paths(ide, env) ==
    IF ide = "jetbrains" THEN "nothing" ELSE env.search

\* for path in potential_paths: result = _check_ide_path(..); if result:
\* return result -- the position of the candidate returned, 0 for none
SearchPick(cands) == IF cands = <<>> THEN 0 ELSE 1

\* max(files, key=lambda f: os.path.getmtime(f)): the first of the files
\* with the greatest modification time; except Exception: files[0]
get_latest_extension(files, mtimeFails) ==
    IF files = <<>> THEN 0
    ELSE IF mtimeFails THEN 1
    ELSE CHOOSE i \in DOMAIN files :
            /\ \A j \in DOMAIN files : files[j] <= files[i]
            /\ \A j \in 1..(i - 1) : files[j] < files[i]

Resolved(ret, searched, raised) ==
    [ret |-> ret, searched |-> searched, raised |-> raised]

\* except Exception as e: the search if auto_search, else None
OnResolveError(ide, env, auto_search) ==
    IF ~auto_search THEN Resolved("none", FALSE, FALSE)
    ELSE LET found == auto_search_ide_paths(ide, env) IN
         CASE found = "found"   -> Resolved("found", TRUE, FALSE)
           [] found = "nothing" -> Resolved("none", TRUE, FALSE)
           [] found = "raises"  -> Resolved("none", TRUE, TRUE)

\* A slip: the search is made whether or not auto_search is set.
NeedsSearchAlways(auto_search, exists) == ~exists

\* if auto_search and paths: if not (state_db_exists or storage_json_exists)
NeedsSearch(auto_search, exists) == auto_search /\ ~exists

\* get_ide_paths(ide_type, auto_search): "none" for None, "empty" for {},
\* "default" for the template paths, "found" for what the search returned
get_ide_paths(ide, auto_search, env) ==
    IF ide = "jetbrains" THEN Resolved("empty", FALSE, FALSE)
    ELSE IF ~TemplateAvailable(ide, env) THEN Resolved("none", FALSE, FALSE)
    ELSE IF env.raises /\ CanRaise(ide, env, auto_search)
    THEN OnResolveError(ide, env, auto_search)
    ELSE IF ide = "windsurf" /\ ~DefaultExists(ide, env)
    THEN Resolved("none", FALSE, FALSE)
    ELSE IF ~NeedsSearch(auto_search, DefaultExists(ide, env))
    THEN Resolved("default", FALSE, FALSE)
    ELSE LET found == auto_search_ide_paths(ide, env) IN
         CASE found = "found"   -> Resolved("found", TRUE, FALSE)
           [] found = "nothing" -> Resolved("default", TRUE, FALSE)
           [] found = "raises"  -> OnResolveError(ide, env, auto_search)

\* a call of get_ide_paths
GetIdePaths ==
    /\ \E ide \in IDEType, auto_search \in BOOLEAN :
        LET r == get_ide_paths(ide, auto_search, penv) IN
        plast' = [op |-> "get", ide |-> ide, auto_search |-> auto_search,
                  ret |-> r.ret, searched |-> r.searched, raised |-> r.raised,
                  chosen |-> IF r.ret = "found" THEN SearchPick(penv.cands)
                             ELSE 0]
    /\ UNCHANGED penv
    /\ PathFrame

\* a call of ExtensionFinder.get_latest_extension on the files found
GetLatestExtension ==
    /\ \E ide \in IDEType, mtimeFails \in BOOLEAN :
        LET i == get_latest_extension(penv.cands, mtimeFails) IN
        plast' = [op |-> "latest", ide |-> ide, auto_search |-> TRUE,
                  ret |-> IF i = 0 THEN "none" ELSE "found",
                  searched |-> TRUE, raised |-> mtimeFails, chosen |-> i]
    /\ UNCHANGED penv
    /\ PathFrame

InitPaths ==
    /\ GuiIdle
    /\ DbIdle
    /\ PatchIdle
    /\ procs = {}
    /\ KillIdle
    /\ OrchIdle
    /\ FileIdle
    /\ TelIdle
    /\ WorkIdle
    /\ penv \in Machines
    /\ plast = NoResolve

NextPaths == GetIdePaths \/ GetLatestExtension

SpecPaths == InitPaths /\ [][NextPaths]_vars

(***************************************************************************)
(* Claims about path resolution, checked under SpecPaths.                  *)
(***************************************************************************)
\* C29: when no default artifact of the IDE exists and the search finds no
\* installation, get_ide_paths returns no paths and does not raise; and it
\* never returns the default paths when no default artifact was found.
C29_UnresolvedWhenNothingFound ==
    plast.op = "get" =>
        /\ (~DefaultExists(plast.ide, penv)
              /\ auto_search_ide_paths(plast.ide, penv) = "nothing")
            => (plast.ret \in {"none", "empty"} /\ ~plast.raised)
        /\ plast.ret = "default" => DefaultExists(plast.ide, penv)

\* C30 as stated: whenever a default artifact exists or auto_search is off,
\* the default template paths are returned and the search is not run; the
\* search runs only when the defaults fail the existence check and
\* auto_search is on.
C30_PrefersDefault ==
    plast.op = "get" =>
        /\ (DefaultExists(plast.ide, penv) \/ ~plast.auto_search)
            => (plast.ret = "default" /\ ~plast.searched)
        /\ plast.searched
            => (plast.auto_search /\ ~DefaultExists(plast.ide, penv))

\* resolving the defaults of the call raised
ResolveRaised ==
    penv.raises /\ TemplateAvailable(plast.ide, penv)
        /\ CanRaise(plast.ide, penv, plast.auto_search)

\* C30, amended: when a default artifact exists and resolving the defaults
\* does not raise, the default paths are returned and the search is not
\* run.  With auto_search off the search is never run; the default
\* template paths are returned for VS Code and Cursor when the template can
\* be built and nothing raises, and otherwise (JetBrains, Windsurf with no
\* data directory, no APPDATA, unknown system, an exception) the empty or
\* unresolved outcome.  The search runs only with auto_search on, and only
\* when the defaults fail the existence check or resolving them raised.
C30_PrefersDefaultAmended ==
    plast.op = "get" =>
        /\ (DefaultExists(plast.ide, penv) /\ ~ResolveRaised)
            => (plast.ret = "default" /\ ~plast.searched)
        /\ ~plast.auto_search =>
            /\ ~plast.searched
            /\ plast.ret \in {"default", "none", "empty"}
            /\ (plast.ide \in {"vscode", "cursor"}
                  /\ TemplateAvailable(plast.ide, penv) /\ ~ResolveRaised)
                => plast.ret = "default"
        /\ plast.searched
            => /\ plast.auto_search
               /\ ~DefaultExists(plast.ide, penv) \/ ResolveRaised

\* A call with auto_search off on a machine that has no default artifact
\* but an installation elsewhere returned the default template paths
\* without searching.
C30_Witness ==
    /\ plast.op = "get" /\ ~plast.auto_search
    /\ plast.ide = "vscode" /\ penv.system = "Linux"
    /\ ~DefaultExists(plast.ide, penv)
    /\ penv.search = "found"
    /\ plast.ret = "default" /\ ~plast.searched

\* C31: when a search came upon several candidates that each hold an
\* expected artifact, the one returned has the most recent modification
\* time of them all (for the extension files: when the times can be read).
C31_LatestCandidateReturned ==
    (plast.ret = "found" /\ Len(penv.cands) > 1
        /\ (plast.op = "get" \/ (plast.op = "latest" /\ ~plast.raised)))
        => \A j \in DOMAIN penv.cands :
              penv.cands[j] <= penv.cands[plast.chosen]

(***************************************************************************)
(* The main page of the GUI: the button handlers of MainPage, the worker   *)
(* threads they start, and the completion signals, which the GUI thread    *)
(* handles one at a time.  A click reaches only an enabled button, and no  *)
(* button while a QMessageBox is open (the dialogs are modal); queued      *)
(* signals are handled also while a dialog is open.  What a worker does to *)
(* the store and the files is the business of the sections above.          *)
(***************************************************************************)
GuiFrame ==
    UNCHANGED <<dbVars, patchVars, procs, killVars, orchVars, fileVars,
                telVars, workVars, pathVars>>

\* the worker classes the page starts
WorkerKinds ==
    {"run_all", "close_ide", "clean_db", "modify_ids", "patch", "restore", "scan"}

\* threads the machine will run at once
MaxThreads == 3

\* A slip: the patch handlers do not look at current_worker.
BusyNever(current_worker) == FALSE

\* if self.current_worker: return
Busy(current_worker) == current_worker # "none"

\* self._set_buttons_enabled(False); self.current_worker = XWorker(..);
\* self.current_worker.start()
StartWorker(kind) ==
    /\ gui.active < MaxThreads
    /\ gui' = [gui EXCEPT !.enabled = FALSE, !.current_worker = kind,
                          !.active = @ + 1, !.dialog = "none"]

\* ide_combo: the user selects another IDE
SelectIde ==
    /\ gui.dialog = "none"
    /\ \E ide \in IDEType \ {gui.ide} : gui' = [gui EXCEPT !.ide = ide]
    /\ GuiFrame

\* the selected IDE is started or closed (what _is_ide_running reports)
IdeStartsOrStops ==
    /\ gui' = [gui EXCEPT !.running = ~@]
    /\ GuiFrame

\* _run_all_clicked, _close_ide_clicked up to the confirmation dialog
ClickConfirmed ==
    /\ gui.enabled /\ gui.dialog = "none"
    /\ \E kind \in {"run_all", "close_ide"} : gui' = [gui EXCEPT !.dialog = kind]
    /\ GuiFrame

\* _clean_database_clicked: the JetBrains notice, the running-IDE notice,
\* or the worker
ClickCleanDatabase ==
    /\ gui.enabled /\ gui.dialog = "none"
    /\ IF gui.ide = "jetbrains" \/ gui.running
       THEN gui' = [gui EXCEPT !.dialog = "info"]
       ELSE StartWorker("clean_db")
    /\ GuiFrame

\* _modify_ids_clicked: the running-IDE notice, or the worker
ClickModifyIds ==
    /\ gui.enabled /\ gui.dialog = "none"
    /\ IF gui.running
       THEN gui' = [gui EXCEPT !.dialog = "info"]
       ELSE StartWorker("modify_ids")
    /\ GuiFrame

\* _apply_patch_clicked, _restore_patch_clicked up to the confirmation
\* dialog; these buttons are never disabled
ClickPatch ==
    /\ gui.dialog = "none"
    /\ \E kind \in {"patch", "restore"} :
        IF Busy(gui.current_worker) THEN UNCHANGED gui
        ELSE gui' = [gui EXCEPT !.dialog = kind]
    /\ GuiFrame

\* _scan_patch_clicked
ClickScan ==
    /\ gui.dialog = "none"
    /\ IF Busy(gui.current_worker) THEN UNCHANGED gui
       ELSE StartWorker("scan")
    /\ GuiFrame

\* the confirmation dialog is answered: Yes starts the worker, No returns
DialogAnswered ==
    /\ gui.dialog \in WorkerKinds
    /\ \/ StartWorker(gui.dialog)
       \/ gui' = [gui EXCEPT !.dialog = "none"]
    /\ GuiFrame

\* QMessageBox.information is closed
InfoClosed ==
    /\ gui.dialog = "info"
    /\ gui' = [gui EXCEPT !.dialog = "none"]
    /\ GuiFrame

\* a worker's run() emits its completion signal and returns
WorkerCompletes ==
    /\ gui.active > 0
    /\ \E success \in BOOLEAN :
        gui' = [gui EXCEPT !.active = @ - 1, !.signals = Append(@, success)]
    /\ GuiFrame

\* _on_task_completed(success), also reached through _on_patch_completed,
\* _on_restore_completed and _on_scan_completed
OnTaskCompleted ==
    /\ gui.signals # <<>>
    /\ gui' = [gui EXCEPT !.enabled = TRUE, !.current_worker = "none",
                          !.status = IF Head(gui.signals) THEN "success"
                                     ELSE "error",
                          !.signals = Tail(@)]
    /\ GuiFrame

\* QTimer.singleShot(3000, self.status_label.hide_status)
StatusHides ==
    /\ gui.status # "none"
    /\ gui' = [gui EXCEPT !.status = "none"]
    /\ GuiFrame

InitGui ==
    /\ DbIdle
    /\ PatchIdle
    /\ procs = {}
    /\ KillIdle
    /\ OrchIdle
    /\ FileIdle
    /\ TelIdle
    /\ WorkIdle
    /\ PathIdle
    /\ gui = NoPage

NextGui ==
    \/ SelectIde
    \/ IdeStartsOrStops
    \/ ClickConfirmed
    \/ ClickCleanDatabase
    \/ ClickModifyIds
    \/ ClickPatch
    \/ ClickScan
    \/ DialogAnswered
    \/ InfoClosed
    \/ WorkerCompletes
    \/ OnTaskCompleted
    \/ StatusHides

SpecGui == InitGui /\ [][NextGui]_vars

(***************************************************************************)
(* Claims about the main page, checked under SpecGui.                      *)
(***************************************************************************)
\* C37: at most one worker thread is under way at any time, it is the one
\* current_worker names, and a worker is started only when no worker is
\* current, none is under way and no completion signal waits.
C37_OneWorkerAtATime ==
    /\ [](/\ gui.active <= 1
          /\ gui.active = 1 => (gui.current_worker # "none" /\ ~gui.enabled))
    /\ [][(gui'.active > gui.active)
            => (gui.current_worker = "none" /\ gui.active = 0
                  /\ gui.signals = <<>>)]_vars

\* After an earlier worker completed, a scan is under way with the four
\* main buttons disabled.
C37_Witness ==
    /\ gui.active = 1 /\ gui.current_worker = "scan"
    /\ gui.status = "success" /\ ~gui.enabled

====
